---- MODULE Spec2Model ----
(***************************************************************************)
(* AltairCAM core: coordinate decoding, the Excellon and Gerber parsers,   *)
(* the mirror transform and the nearest-neighbor toolpath optimizer.       *)
(*                                                                         *)
(* Text is modelled character by character: a string is a sequence of      *)
(* one-character strings, so that startswith / in / re.match / re.search   *)
(* are computed on the characters the way the Python code computes them.   *)
(*                                                                         *)
(* A Python float is modelled as an exact decimal fraction: the record     *)
(* [n |-> N, e |-> E] stands for N / 10^E and is kept normalised (no       *)
(* trailing zero in N while E > 0), so that equal numbers are equal        *)
(* records.  Binary rounding of IEEE doubles is not modelled.              *)
(***************************************************************************)
EXTENDS Integers, Sequences, FiniteSets, TLC

\* ---------------------------------------------------------------- state
VARIABLES
    excellon,   \* the ExcellonParser object: its fields, holes = drill_data.holes
    ex_pc,      \* "scanning" inside parse()'s loop, "returned", or "raised"
    ex_line,    \* the line the loop consumed last (None before the first)
    ex_count,   \* the number of lines the loop has consumed
    ex_matched, \* how many lines of ExampleDrill the input has been so far, or -1
    gerber,     \* the GerberParser object: its fields, with geometry's lists
    gb_pc,      \* "scanning" inside parse()'s loop, "returned", or "raised"
    gb_line,    \* the line the loop consumed last (None before the first)
    gb_count,   \* the number of lines the loop has consumed
    gb_last,    \* the D01/D02 coordinate line consumed last before gb_line:
                \* its code, "D01" or "D02", or "none"
    gb_end,     \* the number of the first line M02* the loop consumed, 0 if none
    dc_parser,  \* the class whose decoder is called: "gerber" or "excellon"
    dc_self,    \* the parser object the method is called on
    dc_arg,     \* the argument: a coordinate string, or a tool definition line
    dc_call,    \* "none" before the call, then "convert" or "tooldef"
    dc_ret,     \* what _convert_coordinate returned (ValueError if it raised)
    mr_kind,    \* what is mirrored: "geometry" or "drill"
    mr_input,   \* the Geometry or DrillData handed to the first call
    mr_axis,    \* the MirrorAxis of both calls
    mr_reference, \* the reference of both calls, NoReference for None
    mr_count,   \* the number of calls made: 0, 1 or 2
    mr_once,    \* what the first call returned
    mr_twice,   \* what the second call, on mr_once, returned
    op_drill,   \* the DrillData handed to the optimizer and the generator
    op_start,   \* the start_point argument of optimize_drill_path
    op_done,    \* the calls made so far
    op_order,   \* optimize_drill_path: the index list returned
    op_total,   \* optimize_drill_path: the distance returned
    op_report,  \* compare_optimization: the dict returned
    op_plain,   \* generate_drill_toolpath(optimize_order=False): the list
    op_optimized, \* generate_drill_toolpath(optimize_order=True): the list
    op_paths,   \* the paths handed to optimize_isolation_routing
    op_route,   \* optimize_isolation_routing: <<index list, distance>>
    gc_self,    \* the GCodeGenerator: feed_rate, travel_z, cut_z, spindle_speed
    gc_call,    \* the method called, "none" before the call
    gc_arg,     \* its argument: the hole list, the point list, or the move
    gc_out,     \* the list of lines it returned
    pg_self,    \* the GCodeGenerator a program is assembled with
    pg_pc,      \* "new", "open" after the header, "closed" after the footer
    pg_code,    \* all_gcode: the lines of the program so far
    pg_blocks,  \* the number of path blocks appended so far
    ss_calls,   \* the number of parse() calls begun on the parser object
    ss_left     \* the parser object as the call before left it, None in the first

excellonVars == <<excellon, ex_pc, ex_line, ex_count, ex_matched>>

gerberVars == <<gerber, gb_pc, gb_line, gb_count, gb_last, gb_end>>

decodeVars == <<dc_parser, dc_self, dc_arg, dc_call, dc_ret>>

mirrorVars ==
    <<mr_kind, mr_input, mr_axis, mr_reference, mr_count, mr_once, mr_twice>>

optimizerVars ==
    <<op_drill, op_start, op_done, op_order, op_total, op_report, op_plain, op_optimized,
      op_paths, op_route>>

gcodeVars == <<gc_self, gc_call, gc_arg, gc_out>>

programVars == <<pg_self, pg_pc, pg_code, pg_blocks>>

sessionVars == <<ss_calls, ss_left>>

vars ==
    <<excellonVars, gerberVars, decodeVars, mirrorVars, optimizerVars, gcodeVars,
      programVars, sessionVars>>

\* what an action of one component leaves alone
othersOfExcellon ==
    <<gerberVars, decodeVars, mirrorVars, optimizerVars, gcodeVars,
      programVars, sessionVars>>
othersOfGerber ==
    <<excellonVars, decodeVars, mirrorVars, optimizerVars, gcodeVars,
      programVars, sessionVars>>
othersOfDecode ==
    <<excellonVars, gerberVars, mirrorVars, optimizerVars, gcodeVars,
      programVars, sessionVars>>
othersOfMirror ==
    <<excellonVars, gerberVars, decodeVars, optimizerVars, gcodeVars,
      programVars, sessionVars>>
othersOfOptimizer ==
    <<excellonVars, gerberVars, decodeVars, mirrorVars, gcodeVars,
      programVars, sessionVars>>
othersOfGcode ==
    <<excellonVars, gerberVars, decodeVars, mirrorVars, optimizerVars,
      programVars, sessionVars>>
othersOfProgram ==
    <<excellonVars, gerberVars, decodeVars, mirrorVars, optimizerVars, gcodeVars,
      sessionVars>>
othersOfSession == <<decodeVars, mirrorVars, optimizerVars, gcodeVars, programVars>>

\* ------------------------------------------------------------------ text
DigitChars == {"0", "1", "2", "3", "4", "5", "6", "7", "8", "9"}

DigitVal(c) ==
    CASE c = "0" -> 0 [] c = "1" -> 1 [] c = "2" -> 2 [] c = "3" -> 3
      [] c = "4" -> 4 [] c = "5" -> 5 [] c = "6" -> 6 [] c = "7" -> 7
      [] c = "8" -> 8 [] c = "9" -> 9

SignChars == {"+", "-"}

\* s[i..j], empty when j < i (Python slices never fail)
Slice(s, i, j) == [k \in 1..(IF j >= i THEN j - i + 1 ELSE 0) |-> s[i + k - 1]]

\* s[i:] of Python, i counted from 1 here
From(s, i) == Slice(s, i, Len(s))

\* str.startswith
StartsWith(s, p) == Len(s) >= Len(p) /\ Slice(s, 1, Len(p)) = p

\* the positions at which sub occurs in s
Occurrences(s, sub) ==
    {i \in 1..(Len(s) - Len(sub) + 1) : Slice(s, i, i + Len(sub) - 1) = sub}

\* sub in s
Contains(s, sub) == Occurrences(s, sub) # {}

\* length of the longest run of characters of cs that starts at s[i]
RECURSIVE RunLen(_, _, _)
RunLen(s, i, cs) ==
    IF i <= Len(s) /\ s[i] \in cs THEN 1 + RunLen(s, i + 1, cs) ELSE 0

\* str.strip for the blank character
RECURSIVE LStrip(_)
LStrip(s) == IF s # <<>> /\ s[1] = " " THEN LStrip(Tail(s)) ELSE s

RECURSIVE RStrip(_)
RStrip(s) ==
    IF s # <<>> /\ s[Len(s)] = " " THEN RStrip(Slice(s, 1, Len(s) - 1)) ELSE s

Strip(s) == RStrip(LStrip(s))

\* str.replace(c, '') for one character c
RECURSIVE RemoveChar(_, _)
RemoveChar(s, c) ==
    IF s = <<>> THEN <<>>
    ELSE IF s[1] = c THEN RemoveChar(Tail(s), c)
    ELSE <<s[1]>> \o RemoveChar(Tail(s), c)

\* str.zfill(width) of a string without sign
RECURSIVE ZFill(_, _)
ZFill(s, width) == IF Len(s) >= width THEN s ELSE ZFill(<<"0">> \o s, width)

\* int() of a string of digits ('' counts 0: the empty side of "12." or ".5")
RECURSIVE IntVal(_)
IntVal(ds) ==
    IF ds = <<>> THEN 0
    ELSE 10 * IntVal(Slice(ds, 1, Len(ds) - 1)) + DigitVal(ds[Len(ds)])

\* --------------------------------------------------------------- numbers
RECURSIVE Pow10(_)
Pow10(k) == IF k = 0 THEN 1 ELSE 10 * Pow10(k - 1)

\* the float N / 10^E, normalised
RECURSIVE Dec(_, _)
Dec(n, e) ==
    IF e > 0 /\ n % 10 = 0 THEN Dec(n \div 10, e - 1) ELSE [n |-> n, e |-> e]

Zero == Dec(0, 0)

Max(a, b) == IF a >= b THEN a ELSE b

\* the numerator of v over the denominator 10^e, e >= v.e
Num(v, e) == v.n * Pow10(e - v.e)

Neg(v) == Dec(0 - v.n, v.e)

Add(a, b) == Dec(Num(a, Max(a.e, b.e)) + Num(b, Max(a.e, b.e)), Max(a.e, b.e))

Sub(a, b) == Add(a, Neg(b))

Mul(a, b) == Dec(a.n * b.n, a.e + b.e)

\* v / 2
Half(v) == Dec(v.n * 5, v.e + 1)

Less(a, b) == Num(a, Max(a.e, b.e)) < Num(b, Max(a.e, b.e))

LessEq(a, b) == ~Less(b, a)

\* the literal 25.4 of the inch conversions
INCH_TO_MM == Dec(254, 1)

\* what a raised ValueError is modelled as: no number has e < 0
ValueError == [n |-> 0, e |-> 0 - 1]

IsError(v) == v.e < 0

\* float(s) for s over sign, digit and '.' characters: a number, or ValueError
ParseFloat(s) ==
    LET body  == IF s # <<>> /\ s[1] \in SignChars THEN Tail(s) ELSE s
        sign  == IF s # <<>> /\ s[1] = "-" THEN 0 - 1 ELSE 1
        ni    == RunLen(body, 1, DigitChars)
        dot   == ni < Len(body) /\ body[ni + 1] = "."
        nf    == IF dot THEN RunLen(body, ni + 2, DigitChars) ELSE 0
        used  == ni + (IF dot THEN 1 + nf ELSE 0)
        ipart == Slice(body, 1, ni)
        fpart == Slice(body, ni + 2, ni + 1 + nf)
    IN  IF used # Len(body) \/ ni + nf = 0 THEN ValueError
        ELSE Dec(sign * IntVal(ipart \o fpart), nf)

\* ------------------------------------------------- coordinate decoding
MM == "mm"
INCH == "inch"
Units == {MM, INCH}

\* str.ljust(width, '0'): zeros appended, not prepended
RECURSIVE LJust(_, _)
LJust(s, width) == IF Len(s) >= width THEN s ELSE LJust(s \o <<"0">>, width)

\* _convert_coordinate padding on the right, as for trailing-zero suppression
Gerber_convert_coordinate_ljust(value_str, format_spec, unit) ==
    LET int_digits   == format_spec[1]
        dec_digits   == format_spec[2]
        total_digits == int_digits + dec_digits
        signed   == StartsWith(value_str, <<"+">>) \/ StartsWith(value_str, <<"-">>)
        sign     == IF signed /\ value_str[1] # "+" THEN 0 - 1 ELSE 1
        digits   == IF signed THEN Tail(value_str) ELSE value_str
        padded   == LJust(digits, total_digits)
        int_part == Slice(padded, 1, int_digits)
        dec_part == Slice(padded, int_digits + 1, int_digits + dec_digits)
        f        == ParseFloat(int_part \o <<".">> \o dec_part)
        value    == Dec(sign * f.n, f.e)
    IN  IF IsError(f) THEN ValueError
        ELSE IF unit = INCH THEN Mul(value, INCH_TO_MM)
        ELSE value

\* GerberParser._convert_coordinate(value_str) with self.format_spec, self.unit
Gerber_convert_coordinate(value_str, format_spec, unit) ==
    LET int_digits   == format_spec[1]
        dec_digits   == format_spec[2]
        total_digits == int_digits + dec_digits
        signed   == StartsWith(value_str, <<"+">>) \/ StartsWith(value_str, <<"-">>)
        sign     == IF signed /\ value_str[1] # "+" THEN 0 - 1 ELSE 1
        digits   == IF signed THEN Tail(value_str) ELSE value_str
        padded   == ZFill(digits, total_digits)
        int_part == Slice(padded, 1, int_digits)
        dec_part == Slice(padded, int_digits + 1, int_digits + dec_digits)
        f        == ParseFloat(int_part \o <<".">> \o dec_part)
        value    == Dec(sign * f.n, f.e)
    IN  IF IsError(f) THEN ValueError
        ELSE IF unit = INCH THEN Mul(value, INCH_TO_MM)
        ELSE value

\* ExcellonParser._convert_coordinate(value_str) with self.format_spec, self.unit
Excellon_convert_coordinate(value_str, format_spec, unit) ==
    LET int_digits   == format_spec[1]
        dec_digits   == format_spec[2]
        total_digits == int_digits + dec_digits
        signed   == StartsWith(value_str, <<"+">>) \/ StartsWith(value_str, <<"-">>)
        sign     == IF signed /\ value_str[1] # "+" THEN 0 - 1 ELSE 1
        digits   == IF signed THEN Tail(value_str) ELSE value_str
        padded   == ZFill(digits, total_digits)
        int_part == Slice(padded, 1, int_digits)
        dec_part == Slice(padded, int_digits + 1, int_digits + dec_digits)
        f        == IF Contains(value_str, <<".">>) THEN ParseFloat(value_str)
                    ELSE ParseFloat(int_part \o <<".">> \o dec_part)
        value    == IF Contains(value_str, <<".">>) THEN f ELSE Dec(sign * f.n, f.e)
    IN  IF IsError(f) THEN ValueError
        ELSE IF unit = INCH THEN Mul(value, INCH_TO_MM)
        ELSE value

\* ---------------------------------------------------------- regex helpers
\* the group of re.match(letter + r'([+-]?<cs>+)', s[i:]) or '' without match
NumberAt(s, i, letter, cs) ==
    LET signed == i + 1 <= Len(s) /\ s[i + 1] \in SignChars
        first  == IF signed THEN i + 2 ELSE i + 1
        run    == RunLen(s, first, cs)
    IN  IF i <= Len(s) /\ s[i] = letter /\ run > 0
        THEN Slice(s, i + 1, first + run - 1) ELSE <<>>

\* match.group(1) of re.search(letter + r'([+-]?<cs>+)', s): the leftmost
\* position that matches; '' stands for "no match" (a group is never empty)
SearchNumber(s, letter, cs) ==
    LET hits == {i \in 1..Len(s) : NumberAt(s, i, letter, cs) # <<>>}
    IN  IF hits = {} THEN <<>>
        ELSE NumberAt(s, CHOOSE i \in hits : \A j \in hits : i <= j, letter, cs)

\* --------------------------------------------------------- geometry model
Point(x, y) == [x |-> x, y |-> y]

DrillHole(position, diameter) == [position |-> position, diameter |-> diameter]

\* ------------------------------------------------------- Excellon parser
\* None of Python, where a string is expected
None == <<>>

\* ExcellonParser.__init__
ExcellonParser ==
    [ current_x    |-> Zero,
      current_y    |-> Zero,
      current_tool |-> None,
      tools        |-> <<>>,
      unit         |-> MM,
      format_spec  |-> <<3, 3>>,
      holes        |-> <<>> ]

\* what a handler leaves: the object, and whether an exception left it
Ok(self) == [self |-> self, raised |-> FALSE, break |-> FALSE]
Raised(self) == [self |-> self, raised |-> TRUE, break |-> FALSE]

\* a break that does not leave the loop
Break_ignored(self) == [self |-> self, raised |-> FALSE, break |-> FALSE]

\* break
Break(self) == [self |-> self, raised |-> FALSE, break |-> TRUE]

\* _parse_tool_definition skipping a diameter that is not a number
Excellon_parse_tool_definition_lenient(self, line) ==
    LET nd   == RunLen(line, 2, DigitChars)
        nc   == RunLen(line, nd + 3, DigitChars \cup {"."})
        match == /\ StartsWith(line, <<"T">>) /\ nd > 0
                 /\ nd + 2 <= Len(line) /\ line[nd + 2] = "C" /\ nc > 0
        tool_number == Slice(line, 2, nd + 1)
        literal  == ParseFloat(Slice(line, nd + 3, nd + 2 + nc))
        diameter == IF self.unit = INCH THEN Mul(literal, INCH_TO_MM) ELSE literal
    IN  IF ~match \/ IsError(literal) THEN Ok(self)
        ELSE Ok([self EXCEPT !.tools = (tool_number :> diameter) @@ @])

\* _parse_tool_definition storing the literal whatever the unit
Excellon_parse_tool_definition_no_inch(self, line) ==
    LET nd   == RunLen(line, 2, DigitChars)
        nc   == RunLen(line, nd + 3, DigitChars \cup {"."})
        match == /\ StartsWith(line, <<"T">>) /\ nd > 0
                 /\ nd + 2 <= Len(line) /\ line[nd + 2] = "C" /\ nc > 0
        tool_number == Slice(line, 2, nd + 1)
        literal  == ParseFloat(Slice(line, nd + 3, nd + 2 + nc))
    IN  IF ~match THEN Ok(self)
        ELSE IF IsError(literal) THEN Raised(self)
        ELSE Ok([self EXCEPT !.tools = (tool_number :> literal) @@ @])

\* ExcellonParser._parse_tool_definition: re.match(r'T(\d+)C([\d.]+)', line)
Excellon_parse_tool_definition(self, line) ==
    LET nd   == RunLen(line, 2, DigitChars)
        nc   == RunLen(line, nd + 3, DigitChars \cup {"."})
        match == /\ StartsWith(line, <<"T">>) /\ nd > 0
                 /\ nd + 2 <= Len(line) /\ line[nd + 2] = "C" /\ nc > 0
        tool_number == Slice(line, 2, nd + 1)
        literal  == ParseFloat(Slice(line, nd + 3, nd + 2 + nc))
        diameter == IF self.unit = INCH THEN Mul(literal, INCH_TO_MM) ELSE literal
    IN  IF ~match THEN Ok(self)
        ELSE IF IsError(literal) THEN Raised(self)
        ELSE Ok([self EXCEPT !.tools = (tool_number :> diameter) @@ @])

\* ExcellonParser._parse_tool_selection: re.match(r'T(\d+)', line)
Excellon_parse_tool_selection(self, line) ==
    LET nd == RunLen(line, 2, DigitChars)
    IN  IF StartsWith(line, <<"T">>) /\ nd > 0
        THEN Ok([self EXCEPT !.current_tool = Slice(line, 2, nd + 1)])
        ELSE Ok(self)

\* _parse_coordinate with the hole built before the position is updated
Excellon_parse_coordinate_stale(self, line) ==
    LET x_match == SearchNumber(line, "X", DigitChars \cup {"."})
        y_match == SearchNumber(line, "Y", DigitChars \cup {"."})
        x == IF x_match # <<>>
             THEN Excellon_convert_coordinate(x_match, self.format_spec, self.unit)
             ELSE self.current_x
        y == IF y_match # <<>>
             THEN Excellon_convert_coordinate(y_match, self.format_spec, self.unit)
             ELSE self.current_y
        moved == [self EXCEPT !.current_x = x, !.current_y = y]
    IN  IF IsError(x) THEN Raised(self)
        ELSE IF IsError(y) THEN Raised([self EXCEPT !.current_x = x])
        ELSE IF self.current_tool # None /\ self.current_tool \in DOMAIN self.tools
        THEN Ok([moved EXCEPT !.holes =
                    Append(@, DrillHole(Point(self.current_x, self.current_y),
                                        self.tools[self.current_tool]))])
        ELSE Ok(moved)

\* ExcellonParser._parse_coordinate
Excellon_parse_coordinate(self, line) ==
    LET x_match == SearchNumber(line, "X", DigitChars \cup {"."})
        y_match == SearchNumber(line, "Y", DigitChars \cup {"."})
        x == IF x_match # <<>>
             THEN Excellon_convert_coordinate(x_match, self.format_spec, self.unit)
             ELSE self.current_x
        y == IF y_match # <<>>
             THEN Excellon_convert_coordinate(y_match, self.format_spec, self.unit)
             ELSE self.current_y
        moved == [self EXCEPT !.current_x = x, !.current_y = y]
    IN  IF IsError(x) THEN Raised(self)
        ELSE IF IsError(y) THEN Raised([self EXCEPT !.current_x = x])
        ELSE IF self.current_tool # None /\ self.current_tool \in DOMAIN self.tools
        THEN Ok([moved EXCEPT !.holes =
                    Append(@, DrillHole(Point(x, y), self.tools[self.current_tool]))])
        ELSE Ok(moved)

\* one pass of the loop of ExcellonParser.parse over the raw line
Excellon_parse_line(self, raw) ==
    LET line == Strip(raw)
    IN  IF line = <<>> \/ StartsWith(line, <<";">>) THEN Ok(self)
        ELSE IF line = <<"M", "4", "8">> THEN Ok(self)
        ELSE IF line = <<"%">> THEN Ok(self)
        ELSE IF line = <<"M", "E", "T", "R", "I", "C">> THEN Ok([self EXCEPT !.unit = MM])
        ELSE IF line = <<"I", "N", "C", "H">> THEN Ok([self EXCEPT !.unit = INCH])
        ELSE IF StartsWith(line, <<"F", "M", "A", "T">>) THEN Ok(self)
        ELSE IF StartsWith(line, <<"T">>) /\ Contains(line, <<"C">>)
        THEN Excellon_parse_tool_definition(self, line)
        ELSE IF StartsWith(line, <<"T">>) /\ ~Contains(line, <<"C">>)
        THEN Excellon_parse_tool_selection(self, line)
        ELSE IF StartsWith(line, <<"X">>) \/ StartsWith(line, <<"Y">>)
        THEN Excellon_parse_coordinate(self, line)
        ELSE IF line = <<"M", "3", "0">> THEN Break(self)
        ELSE Ok(self)

\* ------------------------------------------------ Excellon: the inputs
\* the modelled drill files are the files of at most MaxFileLines lines
\* over ExcellonLines, and ExampleDrill
MaxFileLines == 4

\* the lines a modelled drill file is made of
ExcellonLines ==
    { <<"M", "4", "8">>,
      <<"%">>,
      <<"M", "E", "T", "R", "I", "C">>,
      <<"I", "N", "C", "H">>,
      <<"F", "M", "A", "T", ",", "2">>,
      <<"T", "0", "1", "C", "0", ".", "8", "0", "0">>,
      <<"T", "0", "1">>,
      <<"T", "0", "2">>,
      <<"X", "0", "1", "2", "3", "4", "5", "Y", "0", "6", "7", "8", "9", "0">>,
      <<"X", "-", "1", "5">>,
      <<" ", "Y", "1", ".", "5">>,
      <<"X", "1", ".", "2", ".", "3">>,
      <<"T", "0", "3", "C", "1", ".", "2", ".", "3">>,
      <<"M", "3", "0">>,
      <<";", "X", "1", "Y", "1">> }

\* the end-to-end scenario of the specification
ExampleDrill ==
    << <<"M", "4", "8">>,
       <<"M", "E", "T", "R", "I", "C">>,
       <<"T", "0", "1", "C", "0", ".", "8", "0", "0">>,
       <<"%">>,
       <<"T", "0", "1">>,
       <<"X", "0", "1", "2", "3", "4", "5", "Y", "0", "6", "7", "8", "9", "0">>,
       <<"M", "3", "0">> >>

\* ----------------------------------------------- Excellon: the actions
ExcellonInit ==
    /\ excellon = ExcellonParser
    /\ ex_pc = "scanning"
    /\ ex_line = None
    /\ ex_count = 0
    /\ ex_matched = 0

\* the loop of parse() takes the next line of the content
ExcellonLine ==
    /\ ex_pc = "scanning"
    /\ \E raw \in ExcellonLines :
          LET r == Excellon_parse_line(excellon, raw)
              example == /\ ex_matched >= 0
                         /\ ex_matched < Len(ExampleDrill)
                         /\ raw = ExampleDrill[ex_matched + 1]
          IN  /\ ex_count < MaxFileLines \/ example
              /\ excellon' = r.self
              /\ ex_pc' = IF r.raised THEN "raised"
                          ELSE IF r.break THEN "returned" ELSE "scanning"
              /\ ex_line' = raw
              /\ ex_count' = ex_count + 1
              /\ ex_matched' = IF example THEN ex_matched + 1 ELSE 0 - 1
    /\ UNCHANGED othersOfExcellon

\* the content is exhausted: parse() returns self.drill_data
ExcellonEnd ==
    /\ ex_pc = "scanning"
    /\ ex_pc' = "returned"
    /\ UNCHANGED <<excellon, ex_line, ex_count, ex_matched>>
    /\ UNCHANGED othersOfExcellon

ExcellonNext == ExcellonLine \/ ExcellonEnd

\* --------------------------------------------------------- Gerber parser
Line(start, end) == [start |-> start, end |-> end]

Circle(center, radius) == [center |-> center, radius |-> radius]

UpperChars ==
    {"A", "B", "C", "D", "E", "F", "G", "H", "I", "J", "K", "L", "M",
     "N", "O", "P", "Q", "R", "S", "T", "U", "V", "W", "X", "Y", "Z"}

\* GerberParser.__init__ ; Geometry.__init__
GerberParser ==
    [ current_x        |-> Zero,
      current_y        |-> Zero,
      format_spec      |-> <<4, 6>>,
      unit             |-> MM,
      current_aperture |-> None,
      apertures        |-> <<>>,
      draw_mode        |-> FALSE,
      lines            |-> <<>>,
      arcs             |-> <<>>,
      circles          |-> <<>>,
      polygons         |-> <<>> ]

\* _parse_format_spec reading the digits after Y
Gerber_parse_format_spec_y_pair(self, line) ==
    LET hits == {i \in 1..(Len(line) - 5) :
                    /\ line[i] = "X" /\ line[i + 1] \in DigitChars
                    /\ line[i + 2] \in DigitChars /\ line[i + 3] = "Y"
                    /\ line[i + 4] \in DigitChars /\ line[i + 5] \in DigitChars}
        at   == CHOOSE i \in hits : \A j \in hits : i <= j
    IN  IF hits = {} THEN Ok(self)
        ELSE Ok([self EXCEPT !.format_spec =
                    <<DigitVal(line[at + 4]), DigitVal(line[at + 5])>>])

\* GerberParser._parse_format_spec: re.search(r'X(\d)(\d)Y(\d)(\d)', line)
Gerber_parse_format_spec(self, line) ==
    LET hits == {i \in 1..(Len(line) - 5) :
                    /\ line[i] = "X" /\ line[i + 1] \in DigitChars
                    /\ line[i + 2] \in DigitChars /\ line[i + 3] = "Y"
                    /\ line[i + 4] \in DigitChars /\ line[i + 5] \in DigitChars}
        at   == CHOOSE i \in hits : \A j \in hits : i <= j
    IN  IF hits = {} THEN Ok(self)
        ELSE Ok([self EXCEPT !.format_spec =
                    <<DigitVal(line[at + 1]), DigitVal(line[at + 2])>>])

\* GerberParser._parse_unit
Gerber_parse_unit(self, line) ==
    IF Contains(line, <<"M", "M">>) THEN Ok([self EXCEPT !.unit = MM])
    ELSE IF Contains(line, <<"I", "N">>) THEN Ok([self EXCEPT !.unit = INCH])
    ELSE Ok(self)

\* GerberParser._parse_aperture_definition:
\* re.match(r'%ADD(\d+)([A-Z]),([^*]+)\*%', line)
Gerber_parse_aperture_definition(self, line) ==
    LET nd == RunLen(line, 5, DigitChars)
        np == RunLen(line, nd + 7, {line[k] : k \in 1..Len(line)} \ {"*"})
        match == /\ StartsWith(line, <<"%", "A", "D", "D">>) /\ nd > 0
                 /\ nd + 6 <= Len(line)
                 /\ line[nd + 5] \in UpperChars /\ line[nd + 6] = ","
                 /\ np > 0 /\ nd + np + 8 <= Len(line)
                 /\ line[nd + np + 7] = "*" /\ line[nd + np + 8] = "%"
        aperture_num  == <<"D">> \o Slice(line, 5, nd + 4)
        aperture_type == line[nd + 5]
        params        == Slice(line, nd + 7, nd + np + 6)
    IN  IF ~match THEN Ok(self)
        ELSE Ok([self EXCEPT !.apertures =
                    (aperture_num :> [type |-> aperture_type, params |-> params]) @@ @])

\* GerberParser._parse_extended_command
Gerber_parse_extended_command(self, line) ==
    IF Contains(line, <<"F", "S">>) THEN Gerber_parse_format_spec(self, line)
    ELSE IF Contains(line, <<"M", "O">>) THEN Gerber_parse_unit(self, line)
    ELSE IF Contains(line, <<"A", "D", "D">>)
    THEN Gerber_parse_aperture_definition(self, line)
    ELSE Ok(self)

\* the D01 branch of _parse_coordinate with the test of draw_mode left out
Gerber_draw_always(self, moved) ==
    Ok([moved EXCEPT
          !.lines = Append(@, Line(Point(self.current_x, self.current_y),
                                   Point(moved.current_x, moved.current_y))),
          !.draw_mode = TRUE])

\* GerberParser._parse_coordinate, 'D01' in line: self is the parser before
\* the line (prev_x, prev_y), moved the parser with the position updated
Gerber_draw(self, moved) ==
    IF self.draw_mode
    THEN Ok([moved EXCEPT
               !.lines = Append(@, Line(Point(self.current_x, self.current_y),
                                        Point(moved.current_x, moved.current_y))),
               !.draw_mode = TRUE])
    ELSE Ok([moved EXCEPT !.draw_mode = TRUE])

\* GerberParser._parse_coordinate, 'D02' in line
Gerber_move(self, moved) == Ok([moved EXCEPT !.draw_mode = FALSE])

\* the D03 branch of _parse_coordinate with the test of the shape left out
Gerber_flash_any_shape(self, moved) ==
    LET aperture == self.apertures[self.current_aperture]
        diameter == ParseFloat(aperture.params)
    IN  IF /\ self.current_aperture # None
           /\ self.current_aperture \in DOMAIN self.apertures
           /\ ~IsError(diameter)
        THEN Ok([moved EXCEPT
                   !.circles = Append(@, Circle(Point(moved.current_x, moved.current_y),
                                                Half(diameter)))])
        ELSE Ok(moved)

\* GerberParser._parse_coordinate, 'D03' in line
Gerber_flash(self, moved) ==
    LET aperture == self.apertures[self.current_aperture]
        diameter == ParseFloat(aperture.params)
    IN  IF /\ self.current_aperture # None
           /\ self.current_aperture \in DOMAIN self.apertures
           /\ aperture.type = "C"
           /\ ~IsError(diameter)
        THEN Ok([moved EXCEPT
                   !.circles = Append(@, Circle(Point(moved.current_x, moved.current_y),
                                                Half(diameter)))])
        ELSE Ok(moved)

\* _parse_coordinate with an axis that is not on the line going back to 0
Gerber_parse_coordinate_reset(self, line) ==
    LET x_match == SearchNumber(line, "X", DigitChars)
        y_match == SearchNumber(line, "Y", DigitChars)
        x == IF x_match # <<>>
             THEN Gerber_convert_coordinate(x_match, self.format_spec, self.unit)
             ELSE Zero
        y == IF y_match # <<>>
             THEN Gerber_convert_coordinate(y_match, self.format_spec, self.unit)
             ELSE Zero
        moved == [self EXCEPT !.current_x = x, !.current_y = y]
    IN  IF IsError(x) THEN Raised(self)
        ELSE IF IsError(y) THEN Raised([self EXCEPT !.current_x = x])
        ELSE IF Contains(line, <<"D", "0", "1">>) THEN Gerber_draw(self, moved)
        ELSE IF Contains(line, <<"D", "0", "2">>) THEN Gerber_move(self, moved)
        ELSE IF Contains(line, <<"D", "0", "3">>) THEN Gerber_flash(self, moved)
        ELSE Ok(moved)

\* GerberParser._parse_coordinate
Gerber_parse_coordinate(self, line) ==
    LET x_match == SearchNumber(line, "X", DigitChars)
        y_match == SearchNumber(line, "Y", DigitChars)
        x == IF x_match # <<>>
             THEN Gerber_convert_coordinate(x_match, self.format_spec, self.unit)
             ELSE self.current_x
        y == IF y_match # <<>>
             THEN Gerber_convert_coordinate(y_match, self.format_spec, self.unit)
             ELSE self.current_y
        moved == [self EXCEPT !.current_x = x, !.current_y = y]
    IN  IF IsError(x) THEN Raised(self)
        ELSE IF IsError(y) THEN Raised([self EXCEPT !.current_x = x])
        ELSE IF Contains(line, <<"D", "0", "1">>) THEN Gerber_draw(self, moved)
        ELSE IF Contains(line, <<"D", "0", "2">>) THEN Gerber_move(self, moved)
        ELSE IF Contains(line, <<"D", "0", "3">>) THEN Gerber_flash(self, moved)
        ELSE Ok(moved)

\* re.match(r'^D\d+\*?$', line)
IsApertureSelect(line) ==
    LET nd == RunLen(line, 2, DigitChars)
    IN  /\ StartsWith(line, <<"D">>) /\ nd > 0
        /\ \/ Len(line) = nd + 1
           \/ Len(line) = nd + 2 /\ line[nd + 2] = "*"

\* the loop of parse() without the aperture selection branch
Gerber_parse_line_no_select(self, raw) ==
    LET line == Strip(raw)
    IN  IF line = <<>> THEN Ok(self)
        ELSE IF StartsWith(line, <<"G", "0", "4">>) THEN Ok(self)
        ELSE IF StartsWith(line, <<"%">>) THEN Gerber_parse_extended_command(self, line)
        ELSE IF StartsWith(line, <<"G", "0", "1">>) THEN Ok(self)
        ELSE IF \/ Contains(line, <<"X">>) \/ Contains(line, <<"Y">>)
                \/ Contains(line, <<"D", "0">>)
        THEN Gerber_parse_coordinate(self, line)
        ELSE Ok(self)

\* the loop of parse() reading a G01 line as a coordinate line
Gerber_parse_line_G01_parsed(self, raw) ==
    LET line == Strip(raw)
    IN  IF line = <<>> THEN Ok(self)
        ELSE IF StartsWith(line, <<"G", "0", "4">>) THEN Ok(self)
        ELSE IF StartsWith(line, <<"%">>) THEN Gerber_parse_extended_command(self, line)
        ELSE IF IsApertureSelect(line)
        THEN Ok([self EXCEPT !.current_aperture = RemoveChar(line, "*")])
        ELSE IF \/ Contains(line, <<"X">>) \/ Contains(line, <<"Y">>)
                \/ Contains(line, <<"D", "0">>)
        THEN Gerber_parse_coordinate(self, line)
        ELSE Ok(self)

\* one pass of the loop of GerberParser.parse over the raw line
Gerber_parse_line(self, raw) ==
    LET line == Strip(raw)
    IN  IF line = <<>> THEN Ok(self)
        ELSE IF StartsWith(line, <<"G", "0", "4">>) THEN Ok(self)
        ELSE IF StartsWith(line, <<"%">>) THEN Gerber_parse_extended_command(self, line)
        ELSE IF StartsWith(line, <<"G", "0", "1">>) THEN Ok(self)
        ELSE IF IsApertureSelect(line)
        THEN Ok([self EXCEPT !.current_aperture = RemoveChar(line, "*")])
        ELSE IF \/ Contains(line, <<"X">>) \/ Contains(line, <<"Y">>)
                \/ Contains(line, <<"D", "0">>)
        THEN Gerber_parse_coordinate(self, line)
        ELSE Ok(self)

\* -------------------------------------------------- Gerber: the inputs
\* the modelled Gerber files are the files of at most MaxGerberLines lines
\* over GerberLines
MaxGerberLines == 3

\* the lines a modelled Gerber file is made of
GerberLines ==
    { <<"G", "0", "4", " ", "X", "9", "D", "0", "1", "*">>,
      <<"M", "0", "2", "*">>,
      <<"%", "M", "O", "I", "N", "*", "%">>,
      <<"%", "A", "D", "D", "1", "0", "C", ",", "0", ".", "1", "0", "0", "0", "0", "0", "*", "%">>,
      <<"%", "A", "D", "D", "1", "1", "R", ",", "0", ".", "2", "*", "%">>,
      <<"%", "A", "D", "D", "1", "2", "C", ",", "0", ".", "1", "X", "0", ".", "0", "5", "*", "%">>,
      <<"D", "1", "0", "*">>,
      <<"D", "1", "1", "*">>,
      <<"D", "1", "2", "*">>,
      <<"D", "1", "3", "*">>,
      <<"X", "0", "Y", "7", "8", "2", "3", "2", "0", "0", "0", "D", "0", "2", "*">>,
      <<"X", "7", "3", "1", "5", "2", "0", "0", "0", "Y", "7", "8", "2", "3", "2", "0", "0", "0", "D", "0", "1", "*">>,
      <<"Y", "-", "5", "0", "0", "0", "0", "0", "0", "D", "0", "1", "*">>,
      <<"X", "0", "Y", "0", "D", "0", "3", "*">>,
      <<"X", "2", "5", "0", "0", "0", "0", "0", "D", "0", "3", "*">>,
      <<"X", "1", "0", "0", "0", "0", "0", "0", "Y", "1", "0", "0", "0", "0", "0", "0", "*">>,
      <<"D", "0", "1", "*">>,
      <<"D", "0", "3">>,
      <<"%", "F", "S", "L", "A", "X", "2", "4", "Y", "3", "5", "*", "%">>,
      <<"G", "0", "1", "X", "1", "0", "0", "0", "0", "0", "0", "Y", "2", "0", "0", "0", "0", "0", "0", "D", "0", "1", "*">>,
      <<"G", "0", "1", "X", "5", "D", "0", "3", "*">>,
      <<"G", "0", "1", "Y", "7", "D", "0", "2", "*">> }

\* the D01 / D02 coordinate lines of GerberLines, as one reads them
DrawLines ==
    { <<"X", "7", "3", "1", "5", "2", "0", "0", "0", "Y", "7", "8", "2", "3", "2", "0", "0", "0", "D", "0", "1", "*">>,
      <<"Y", "-", "5", "0", "0", "0", "0", "0", "0", "D", "0", "1", "*">> }

MoveLines ==
    { <<"X", "0", "Y", "7", "8", "2", "3", "2", "0", "0", "0", "D", "0", "2", "*">> }

\* ------------------------------------------------- Gerber: the actions
GerberInit ==
    /\ gerber = GerberParser
    /\ gb_pc = "scanning"
    /\ gb_line = None
    /\ gb_count = 0
    /\ gb_last = "none"
    /\ gb_end = 0

\* the loop of parse() takes the next line of the content
GerberLine ==
    /\ gb_pc = "scanning"
    /\ gb_count < MaxGerberLines
    /\ \E raw \in GerberLines :
          LET r == Gerber_parse_line(gerber, raw)
          IN  /\ gerber' = r.self
              /\ gb_pc' = IF r.raised THEN "raised" ELSE "scanning"
              /\ gb_line' = raw
              /\ gb_count' = gb_count + 1
              /\ gb_last' = IF gb_line \in DrawLines THEN "D01"
                            ELSE IF gb_line \in MoveLines THEN "D02"
                            ELSE gb_last
              /\ gb_end' = IF gb_end = 0 /\ Strip(raw) = <<"M", "0", "2", "*">> THEN gb_count + 1
                           ELSE gb_end
    /\ UNCHANGED othersOfGerber

\* the content is exhausted: parse() returns self.geometry
GerberEnd ==
    /\ gb_pc = "scanning"
    /\ gb_pc' = "returned"
    /\ UNCHANGED <<gerber, gb_line, gb_count, gb_last, gb_end>>
    /\ UNCHANGED othersOfGerber

GerberNext == GerberLine \/ GerberEnd

\* ---------------------------------------- the decoders called on their own
\* the longest coordinate string of the digits of TokenDigits the decoders
\* are called with
MaxTokenLen == 4

TokenDigits == {"0", "1", "7"}

RECURSIVE DigitStrings(_)
DigitStrings(len) ==
    IF len = 0 THEN {<<>>}
    ELSE {<<d>> \o t : d \in TokenDigits, t \in DigitStrings(len - 1)}

\* what r'[+-]?\d+' can hand to a decoder
IntegerTokens ==
    LET digits == UNION {DigitStrings(len) : len \in 1..MaxTokenLen}
                    \cup {<<"0", "1", "2", "3", "4", "5">>, <<"7", "3", "1", "5", "2", "0", "0", "0">>}
    IN  digits \cup {<<"-">> \o t : t \in digits} \cup {<<"+">> \o t : t \in digits}

\* what r'[+-]?[\d.]+' can hand to the Excellon decoder besides
DecimalTokens ==
    { <<"2", "2", ".", "6", "0", "6">>, <<"-", "1", ".", "5">>, <<"+", ".", "5">>, <<"1", ".", "2", ".", "3">>, <<".">> }

\* tool definition lines
ToolDefinitionLines ==
    { <<"T", "0", "1", "C", "0", ".", "8", "0", "0">>, <<"T", "2", "C", ".", "5">>, <<"T", "1", "0", "C", "1", "2">> }

\* the format specs an FS directive sets, with the default (4, 6)
FormatSpecs == {<<4, 6>>, <<3, 3>>, <<2, 4>>, <<1, 2>>}

DecodeIdle ==
    /\ dc_parser = "none"
    /\ dc_self = <<>>
    /\ dc_arg = <<>>
    /\ dc_call = "none"
    /\ dc_ret = Zero

\* a GerberParser after a header (FS, MO), an ExcellonParser after METRIC or
\* INCH, and the argument of the call to come
DecodeInit ==
    /\ dc_call = "none"
    /\ dc_ret = Zero
    /\ \/ /\ dc_parser = "gerber"
          /\ dc_self \in {[GerberParser EXCEPT !.format_spec = f, !.unit = u] :
                            f \in FormatSpecs, u \in Units}
          /\ dc_arg \in IntegerTokens
       \/ /\ dc_parser = "excellon"
          /\ dc_self \in {[ExcellonParser EXCEPT !.unit = u] : u \in Units}
          /\ dc_arg \in IntegerTokens \cup DecimalTokens \cup ToolDefinitionLines

\* GerberParser._convert_coordinate(dc_arg)
DecodeGerber ==
    /\ dc_parser = "gerber" /\ dc_call = "none"
    /\ dc_ret' = Gerber_convert_coordinate(dc_arg, dc_self.format_spec, dc_self.unit)
    /\ dc_call' = "convert"
    /\ UNCHANGED <<dc_parser, dc_self, dc_arg>>
    /\ UNCHANGED othersOfDecode

\* ExcellonParser._convert_coordinate(dc_arg)
DecodeExcellon ==
    /\ dc_parser = "excellon" /\ dc_call = "none"
    /\ dc_arg \notin ToolDefinitionLines
    /\ dc_ret' = Excellon_convert_coordinate(dc_arg, dc_self.format_spec, dc_self.unit)
    /\ dc_call' = "convert"
    /\ UNCHANGED <<dc_parser, dc_self, dc_arg>>
    /\ UNCHANGED othersOfDecode

\* ExcellonParser._parse_tool_definition(dc_arg)
DecodeToolDefinition ==
    /\ dc_parser = "excellon" /\ dc_call = "none"
    /\ dc_arg \in ToolDefinitionLines
    /\ dc_self' = Excellon_parse_tool_definition(dc_self, dc_arg).self
    /\ dc_call' = "tooldef"
    /\ UNCHANGED <<dc_parser, dc_arg, dc_ret>>
    /\ UNCHANGED othersOfDecode

DecodeNext == DecodeGerber \/ DecodeExcellon \/ DecodeToolDefinition

\* a parser as above and the text that follows X on the coordinate line to
\* come
TokenInit ==
    /\ dc_call = "none"
    /\ dc_ret = Zero
    /\ dc_arg \in IntegerTokens \cup DecimalTokens
    /\ \/ /\ dc_parser = "gerber"
          /\ dc_self \in {[GerberParser EXCEPT !.format_spec = f, !.unit = u] :
                            f \in FormatSpecs, u \in Units}
       \/ /\ dc_parser = "excellon"
          /\ dc_self \in {[ExcellonParser EXCEPT !.unit = u] : u \in Units}

\* GerberParser._parse_coordinate("X" + dc_arg): dc_ret is current_x after it
TokenGerber ==
    /\ dc_parser = "gerber" /\ dc_call = "none"
    /\ LET r == Gerber_parse_coordinate(dc_self, <<"X">> \o dc_arg)
       IN  /\ dc_self' = r.self
           /\ dc_ret' = IF r.raised THEN ValueError ELSE r.self.current_x
    /\ dc_call' = "line"
    /\ UNCHANGED <<dc_parser, dc_arg>>
    /\ UNCHANGED othersOfDecode

\* ExcellonParser._parse_coordinate("X" + dc_arg): dc_ret is current_x after it
TokenExcellon ==
    /\ dc_parser = "excellon" /\ dc_call = "none"
    /\ LET r == Excellon_parse_coordinate(dc_self, <<"X">> \o dc_arg)
       IN  /\ dc_self' = r.self
           /\ dc_ret' = IF r.raised THEN ValueError ELSE r.self.current_x
    /\ dc_call' = "line"
    /\ UNCHANGED <<dc_parser, dc_arg>>
    /\ UNCHANGED othersOfDecode

TokenNext == TokenGerber \/ TokenExcellon

\* -------------------------------------------------- bounds and mirroring
\* Every Point of a Geometry or DrillData has z = 0.0 (the parsers build
\* Point(x, y), and so does mirror_point), so a point is its x and y.

Arc(start, end, center, clockwise) ==
    [start |-> start, end |-> end, center |-> center, clockwise |-> clockwise]

Polygon(points) == [points |-> points]

\* Geometry.__init__ and DrillData.__init__
Geometry == [lines |-> <<>>, arcs |-> <<>>, circles |-> <<>>, polygons |-> <<>>]

DrillData == [holes |-> <<>>]

Range(f) == {f[i] : i \in DOMAIN f}

\* min() and max() of floats
MinOf(S) == CHOOSE v \in S : \A w \in S : LessEq(v, w)

MaxOf(S) == CHOOSE v \in S : \A w \in S : LessEq(w, v)

\* the tail of both get_bounds: the box of the collected points
BoundsOf(all_points) ==
    IF all_points = {} THEN <<Point(Zero, Zero), Point(Zero, Zero)>>
    ELSE << Point(MinOf({p.x : p \in all_points}), MinOf({p.y : p \in all_points})),
            Point(MaxOf({p.x : p \in all_points}), MaxOf({p.y : p \in all_points})) >>

\* Geometry.get_bounds taking a circle for its centre
Geometry_get_bounds_centres(geometry) ==
    BoundsOf(
        {l.start : l \in Range(geometry.lines)} \cup {l.end : l \in Range(geometry.lines)}
        \cup {a.start : a \in Range(geometry.arcs)} \cup {a.end : a \in Range(geometry.arcs)}
        \cup {a.center : a \in Range(geometry.arcs)}
        \cup {c.center : c \in Range(geometry.circles)}
        \cup UNION {Range(p.points) : p \in Range(geometry.polygons)})

\* Geometry.get_bounds
Geometry_get_bounds(geometry) ==
    BoundsOf(
        {l.start : l \in Range(geometry.lines)} \cup {l.end : l \in Range(geometry.lines)}
        \cup {a.start : a \in Range(geometry.arcs)} \cup {a.end : a \in Range(geometry.arcs)}
        \cup {a.center : a \in Range(geometry.arcs)}
        \cup {Point(Sub(c.center.x, c.radius), Sub(c.center.y, c.radius)) :
                c \in Range(geometry.circles)}
        \cup {Point(Add(c.center.x, c.radius), Add(c.center.y, c.radius)) :
                c \in Range(geometry.circles)}
        \cup UNION {Range(p.points) : p \in Range(geometry.polygons)})

\* DrillData.get_bounds
DrillData_get_bounds(drill_data) ==
    BoundsOf({h.position : h \in Range(drill_data.holes)})

AxisX == "x"
AxisY == "y"

\* reference = None
NoReference == [n |-> 0, e |-> 0 - 2]

\* mirror_point negating the coordinate, as if the reference were always 0
mirror_point_about_zero(point, axis, reference) ==
    IF axis = AxisX THEN Point(point.x, Neg(point.y)) ELSE Point(Neg(point.x), point.y)

\* mirror_point
mirror_point(point, axis, reference) ==
    IF axis = AxisX
    THEN Point(point.x, Sub(Mul(Dec(2, 0), reference), point.y))
    ELSE Point(Sub(Mul(Dec(2, 0), reference), point.x), point.y)

\* a default reference at the lower edge of the bounding box
DefaultReference_min(bounds, axis) ==
    IF axis = AxisX THEN bounds[1].y ELSE bounds[1].x

\* the default of both mirror functions: the middle of the bounding box
DefaultReference(bounds, axis) ==
    IF axis = AxisX THEN Half(Add(bounds[1].y, bounds[2].y))
    ELSE Half(Add(bounds[1].x, bounds[2].x))

\* mirror_geometry keeping the direction of every arc
mirror_geometry_keep_clockwise(geometry, axis, reference) ==
    LET ref == IF reference = NoReference
               THEN DefaultReference(Geometry_get_bounds(geometry), axis)
               ELSE reference
    IN  [ lines    |-> [i \in DOMAIN geometry.lines |->
                          Line(mirror_point(geometry.lines[i].start, axis, ref),
                               mirror_point(geometry.lines[i].end, axis, ref))],
          arcs     |-> [i \in DOMAIN geometry.arcs |->
                          Arc(mirror_point(geometry.arcs[i].start, axis, ref),
                              mirror_point(geometry.arcs[i].end, axis, ref),
                              mirror_point(geometry.arcs[i].center, axis, ref),
                              geometry.arcs[i].clockwise)],
          circles  |-> [i \in DOMAIN geometry.circles |->
                          Circle(mirror_point(geometry.circles[i].center, axis, ref),
                                 geometry.circles[i].radius)],
          polygons |-> [i \in DOMAIN geometry.polygons |->
                          Polygon([k \in DOMAIN geometry.polygons[i].points |->
                                     mirror_point(geometry.polygons[i].points[k], axis, ref)])] ]

\* mirror_geometry
mirror_geometry(geometry, axis, reference) ==
    LET ref == IF reference = NoReference
               THEN DefaultReference(Geometry_get_bounds(geometry), axis)
               ELSE reference
    IN  [ lines    |-> [i \in DOMAIN geometry.lines |->
                          Line(mirror_point(geometry.lines[i].start, axis, ref),
                               mirror_point(geometry.lines[i].end, axis, ref))],
          arcs     |-> [i \in DOMAIN geometry.arcs |->
                          Arc(mirror_point(geometry.arcs[i].start, axis, ref),
                              mirror_point(geometry.arcs[i].end, axis, ref),
                              mirror_point(geometry.arcs[i].center, axis, ref),
                              ~geometry.arcs[i].clockwise)],
          circles  |-> [i \in DOMAIN geometry.circles |->
                          Circle(mirror_point(geometry.circles[i].center, axis, ref),
                                 geometry.circles[i].radius)],
          polygons |-> [i \in DOMAIN geometry.polygons |->
                          Polygon([k \in DOMAIN geometry.polygons[i].points |->
                                     mirror_point(geometry.polygons[i].points[k], axis, ref)])] ]

\* mirror_drill_data
mirror_drill_data(drill_data, axis, reference) ==
    LET ref == IF reference = NoReference
               THEN DefaultReference(DrillData_get_bounds(drill_data), axis)
               ELSE reference
    IN  [ holes |-> [i \in DOMAIN drill_data.holes |->
                       DrillHole(mirror_point(drill_data.holes[i].position, axis, ref),
                                 drill_data.holes[i].diameter)] ]

\* ------------------------------------------------- mirroring: the inputs
\* the number of primitives of a modelled Geometry, of holes of a DrillData
MaxPrimitives == 2

PA == Point(Zero, Zero)
PB == Point(Dec(1, 0), Dec(0 - 25, 1))
PC == Point(Dec(0 - 4, 0), Dec(3, 0))

LinesIn == {Line(PA, PB), Line(PB, PC), Line(PC, PC)}

ArcsIn == {Arc(PA, PB, PC, TRUE), Arc(PB, PC, PA, FALSE), Arc(PC, PC, PB, TRUE)}

CirclesIn == {Circle(PA, Dec(5, 1)), Circle(PB, Dec(2, 0)), Circle(PC, Dec(5, 2))}

PolygonsIn == {Polygon(<<PA, PB, PC>>), Polygon(<<PC, PA>>), Polygon(<<>>)}

HolesIn == {DrillHole(PA, Dec(8, 1)), DrillHole(PB, Dec(8, 1)), DrillHole(PC, Dec(12, 1))}

ReferencesIn == {NoReference, Zero, Dec(15, 1), Dec(0 - 2, 0)}

\* the sequences over S of length at most n
RECURSIVE SeqsUpTo(_, _)
SeqsUpTo(S, n) ==
    IF n = 0 THEN {<<>>}
    ELSE SeqsUpTo(S, n - 1)
         \cup {Append(q, e) : q \in {p \in SeqsUpTo(S, n - 1) : Len(p) = n - 1}, e \in S}

GeometriesIn ==
    {g \in [lines : SeqsUpTo(LinesIn, MaxPrimitives),
            arcs : SeqsUpTo(ArcsIn, MaxPrimitives),
            circles : SeqsUpTo(CirclesIn, MaxPrimitives),
            polygons : SeqsUpTo(PolygonsIn, MaxPrimitives)] :
        Len(g.lines) + Len(g.arcs) + Len(g.circles) + Len(g.polygons) <= MaxPrimitives}

DrillDatasIn == [holes : SeqsUpTo(HolesIn, MaxPrimitives)]

\* ------------------------------------------------ mirroring: the actions
MirrorIdle ==
    /\ mr_kind = "none"
    /\ mr_input = Geometry
    /\ mr_axis = AxisX
    /\ mr_reference = NoReference
    /\ mr_count = 0
    /\ mr_once = Geometry
    /\ mr_twice = Geometry

MirrorInit ==
    /\ \/ mr_kind = "geometry" /\ mr_input \in GeometriesIn
       \/ mr_kind = "drill" /\ mr_input \in DrillDatasIn
    /\ mr_axis \in {AxisX, AxisY}
    /\ mr_reference \in ReferencesIn
    /\ mr_count = 0
    /\ mr_once = mr_input
    /\ mr_twice = mr_input

\* mirror_geometry(mr_input, ...), then mirror_geometry of what it returned
MirrorGeometry ==
    /\ mr_kind = "geometry" /\ mr_count < 2
    /\ mr_count' = mr_count + 1
    /\ IF mr_count = 0
       THEN /\ mr_once' = mirror_geometry(mr_input, mr_axis, mr_reference)
            /\ UNCHANGED mr_twice
       ELSE /\ mr_twice' = mirror_geometry(mr_once, mr_axis, mr_reference)
            /\ UNCHANGED mr_once
    /\ UNCHANGED <<mr_kind, mr_input, mr_axis, mr_reference>>
    /\ UNCHANGED othersOfMirror

\* mirror_drill_data(mr_input, ...), then mirror_drill_data of what it returned
MirrorDrillData ==
    /\ mr_kind = "drill" /\ mr_count < 2
    /\ mr_count' = mr_count + 1
    /\ IF mr_count = 0
       THEN /\ mr_once' = mirror_drill_data(mr_input, mr_axis, mr_reference)
            /\ UNCHANGED mr_twice
       ELSE /\ mr_twice' = mirror_drill_data(mr_once, mr_axis, mr_reference)
            /\ UNCHANGED mr_once
    /\ UNCHANGED <<mr_kind, mr_input, mr_axis, mr_reference>>
    /\ UNCHANGED othersOfMirror

MirrorNext == MirrorGeometry \/ MirrorDrillData

\* ------------------------------------------------------- the optimizer
\* Distances are floats with DistDigits decimals, rounded down: math.sqrt and
\* the division of compare_optimization are computed to that precision.
DistDigits == 2

\* the integer part of the square root of n >= 0
RECURSIVE ISqrt(_)
ISqrt(n) ==
    IF n < 2 THEN n
    ELSE LET s == 2 * ISqrt(n \div 4)
         IN  IF (s + 1) * (s + 1) <= n THEN s + 1 ELSE s

\* math.sqrt
Sqrt(v) == Dec(ISqrt((v.n * Pow10(2 * DistDigits)) \div Pow10(v.e)), DistDigits)

\* a / b for b > 0, to 2 * DistDigits decimals, rounded towards zero
Div(a, b) ==
    LET e == Max(a.e, b.e)
        num == Num(a, e) * Pow10(2 * DistDigits)
        q == IF num >= 0 THEN num \div Num(b, e) ELSE 0 - ((0 - num) \div Num(b, e))
    IN  Dec(q, 2 * DistDigits)

\* ToolpathOptimizer.__init__
ToolpathOptimizer == [start_point |-> Point(Zero, Zero)]

\* start_point = None
NoPoint == Point(NoReference, NoReference)

\* ToolpathOptimizer._distance
Optimizer_distance(p1, p2) ==
    LET dx == Sub(p2.x, p1.x)
        dy == Sub(p2.y, p1.y)
    IN  Sqrt(Add(Mul(dx, dx), Mul(dy, dy)))

\* the inner loop of optimize_drill_path with <=: the last among equals
RECURSIVE NearestUnvisited_last(_, _, _, _, _, _)
NearestUnvisited_last(holes, visited, current_pos, i, nearest_idx, nearest_dist) ==
    IF i >= Len(holes) THEN <<nearest_idx, nearest_dist>>
    ELSE LET dist == Optimizer_distance(current_pos, holes[i + 1].position)
         IN  IF ~visited[i + 1] /\ (nearest_idx = 0 - 1 \/ LessEq(dist, nearest_dist))
             THEN NearestUnvisited_last(holes, visited, current_pos, i + 1, i, dist)
             ELSE NearestUnvisited_last(holes, visited, current_pos, i + 1,
                                        nearest_idx, nearest_dist)

\* the inner loop of optimize_drill_path without the visited test
RECURSIVE NearestUnvisited_revisit(_, _, _, _, _, _)
NearestUnvisited_revisit(holes, visited, current_pos, i, nearest_idx, nearest_dist) ==
    IF i >= Len(holes) THEN <<nearest_idx, nearest_dist>>
    ELSE LET dist == Optimizer_distance(current_pos, holes[i + 1].position)
         IN  IF nearest_idx = 0 - 1 \/ Less(dist, nearest_dist)
             THEN NearestUnvisited_revisit(holes, visited, current_pos, i + 1, i, dist)
             ELSE NearestUnvisited_revisit(holes, visited, current_pos, i + 1,
                                           nearest_idx, nearest_dist)

\* the inner loop of optimize_drill_path from index i on: the nearest
\* unvisited hole, the first one among equals; nearest_idx = -1 stands for
\* nearest_dist = float('inf') as well. Indices count from 0, as in the code.
RECURSIVE NearestUnvisited(_, _, _, _, _, _)
NearestUnvisited(holes, visited, current_pos, i, nearest_idx, nearest_dist) ==
    IF i >= Len(holes) THEN <<nearest_idx, nearest_dist>>
    ELSE LET dist == Optimizer_distance(current_pos, holes[i + 1].position)
         IN  IF ~visited[i + 1] /\ (nearest_idx = 0 - 1 \/ Less(dist, nearest_dist))
             THEN NearestUnvisited(holes, visited, current_pos, i + 1, i, dist)
             ELSE NearestUnvisited(holes, visited, current_pos, i + 1,
                                   nearest_idx, nearest_dist)

\* the outer loop of optimize_drill_path, rounds left to go
RECURSIVE VisitAll(_, _, _, _, _, _)
VisitAll(holes, visited, optimized_path, current_pos, total_distance, rounds) ==
    IF rounds = 0 THEN <<optimized_path, total_distance>>
    ELSE LET nearest == NearestUnvisited(holes, visited, current_pos, 0, 0 - 1, Zero)
             nearest_idx == nearest[1]
         IN  IF nearest_idx # 0 - 1
             THEN VisitAll(holes, [visited EXCEPT ![nearest_idx + 1] = TRUE],
                           Append(optimized_path, nearest_idx),
                           holes[nearest_idx + 1].position,
                           Add(total_distance, nearest[2]), rounds - 1)
             ELSE VisitAll(holes, visited, optimized_path, current_pos,
                           total_distance, rounds - 1)

\* ToolpathOptimizer.optimize_drill_path: <<index list, total distance>>
optimize_drill_path(self, drill_data, start_point) ==
    IF drill_data.holes = <<>> THEN << <<>>, Zero >>
    ELSE VisitAll(drill_data.holes, [i \in DOMAIN drill_data.holes |-> FALSE], <<>>,
                  IF start_point = NoPoint THEN self.start_point ELSE start_point,
                  Zero, Len(drill_data.holes))

\* the inner loop of optimize_isolation_routing without the visited test
RECURSIVE NearestPath_revisit(_, _, _, _, _, _)
NearestPath_revisit(paths, visited, current_pos, i, nearest_idx, nearest_dist) ==
    IF i >= Len(paths) THEN <<nearest_idx, nearest_dist>>
    ELSE IF paths[i + 1] # <<>>
              /\ (nearest_idx = 0 - 1
                  \/ Less(Optimizer_distance(current_pos, paths[i + 1][1]), nearest_dist))
         THEN NearestPath_revisit(paths, visited, current_pos, i + 1, i,
                                  Optimizer_distance(current_pos, paths[i + 1][1]))
         ELSE NearestPath_revisit(paths, visited, current_pos, i + 1,
                                  nearest_idx, nearest_dist)

\* the inner loop of optimize_isolation_routing from index i on: the
\* unvisited, non-empty path whose first point is nearest
RECURSIVE NearestPath(_, _, _, _, _, _)
NearestPath(paths, visited, current_pos, i, nearest_idx, nearest_dist) ==
    IF i >= Len(paths) THEN <<nearest_idx, nearest_dist>>
    ELSE IF ~visited[i + 1] /\ paths[i + 1] # <<>>
              /\ (nearest_idx = 0 - 1
                  \/ Less(Optimizer_distance(current_pos, paths[i + 1][1]), nearest_dist))
         THEN NearestPath(paths, visited, current_pos, i + 1, i,
                          Optimizer_distance(current_pos, paths[i + 1][1]))
         ELSE NearestPath(paths, visited, current_pos, i + 1, nearest_idx, nearest_dist)

\* the outer loop of optimize_isolation_routing going on from the first
\* point of the path taken
RECURSIVE RouteAll_from_first(_, _, _, _, _, _)
RouteAll_from_first(paths, visited, optimized_order, current_pos, total_distance, rounds) ==
    IF rounds = 0 THEN <<optimized_order, total_distance>>
    ELSE LET nearest == NearestPath(paths, visited, current_pos, 0, 0 - 1, Zero)
             nearest_idx == nearest[1]
         IN  IF nearest_idx # 0 - 1
             THEN RouteAll_from_first(paths, [visited EXCEPT ![nearest_idx + 1] = TRUE],
                                      Append(optimized_order, nearest_idx),
                                      paths[nearest_idx + 1][1],
                                      Add(total_distance, nearest[2]), rounds - 1)
             ELSE RouteAll_from_first(paths, visited, optimized_order, current_pos,
                                      total_distance, rounds - 1)

\* the outer loop of optimize_isolation_routing, rounds left to go
RECURSIVE RouteAll(_, _, _, _, _, _)
RouteAll(paths, visited, optimized_order, current_pos, total_distance, rounds) ==
    IF rounds = 0 THEN <<optimized_order, total_distance>>
    ELSE LET nearest == NearestPath(paths, visited, current_pos, 0, 0 - 1, Zero)
             nearest_idx == nearest[1]
         IN  IF nearest_idx # 0 - 1
             THEN RouteAll(paths, [visited EXCEPT ![nearest_idx + 1] = TRUE],
                           Append(optimized_order, nearest_idx),
                           paths[nearest_idx + 1][Len(paths[nearest_idx + 1])],
                           Add(total_distance, nearest[2]), rounds - 1)
             ELSE RouteAll(paths, visited, optimized_order, current_pos,
                           total_distance, rounds - 1)

\* ToolpathOptimizer.optimize_isolation_routing: <<index list, total distance>>
optimize_isolation_routing(self, paths, start_point) ==
    IF paths = <<>> THEN << <<>>, Zero >>
    ELSE RouteAll(paths, [i \in DOMAIN paths |-> FALSE], <<>>,
                  IF start_point = NoPoint THEN self.start_point ELSE start_point,
                  Zero, Len(paths))

\* ToolpathOptimizer.calculate_path_length
RECURSIVE calculate_path_length(_)
calculate_path_length(points) ==
    IF Len(points) < 2 THEN Zero
    ELSE Add(calculate_path_length(SubSeq(points, 1, Len(points) - 1)),
             Optimizer_distance(points[Len(points) - 1], points[Len(points)]))

\* ToolpathOptimizer.compare_optimization: the dict it returns
compare_optimization(self, drill_data) ==
    IF drill_data.holes = <<>>
    THEN [original_distance |-> Zero, optimized_distance |-> Zero,
          improvement_percent |-> Zero]
    ELSE LET original_points ==
                 <<self.start_point>>
                 \o [i \in DOMAIN drill_data.holes |-> drill_data.holes[i].position]
             original_distance == calculate_path_length(original_points)
             optimized == optimize_drill_path(self, drill_data, NoPoint)
             optimized_indices == optimized[1]
             optimized_distance ==
                 Add(optimized[2],
                     Optimizer_distance(self.start_point,
                         drill_data.holes[optimized_indices[1] + 1].position))
             improvement_percent ==
                 IF Less(Zero, original_distance)
                 THEN Mul(Div(Sub(original_distance, optimized_distance),
                              original_distance), Dec(100, 0))
                 ELSE Zero
         IN  [original_distance |-> original_distance,
              optimized_distance |-> optimized_distance,
              improvement_percent |-> improvement_percent,
              optimized_indices |-> optimized_indices]

\* ToolpathGenerator.generate_drill_toolpath: the (position, diameter) list
generate_drill_toolpath(drill_data, optimize_order) ==
    IF optimize_order
    THEN LET optimized_indices == optimize_drill_path(ToolpathOptimizer, drill_data, NoPoint)[1]
         IN  [k \in DOMAIN optimized_indices |->
                << drill_data.holes[optimized_indices[k] + 1].position,
                   drill_data.holes[optimized_indices[k] + 1].diameter >>]
    ELSE [i \in DOMAIN drill_data.holes |->
            <<drill_data.holes[i].position, drill_data.holes[i].diameter>>]

\* the number of holes of a modelled DrillData
MaxHoles == 3

OptimizerHolesIn ==
    { DrillHole(Point(Dec(3, 0), Dec(4, 0)), Dec(8, 1)),
      DrillHole(Point(Dec(0 - 2, 0), Zero), Dec(8, 1)),
      DrillHole(Point(Dec(1, 0), Zero), Dec(1, 0)),
      DrillHole(Point(Dec(1, 0), Zero), Dec(8, 1)),
      DrillHole(Point(Dec(4, 0), Zero), Dec(8, 1)) }

\* the path lists handed to optimize_isolation_routing next to a DrillData
OptimizerPathsIn == { <<>>, << <<PA, PB>>, <<PC>> >> }

StartPointsIn == {NoPoint, Point(Zero, Zero), Point(Dec(25, 1), Dec(0 - 1, 0))}

OptimizerIdle ==
    /\ op_drill = DrillData
    /\ op_start = NoPoint
    /\ op_done = {}
    /\ op_order = <<>>
    /\ op_total = Zero
    /\ op_report = None
    /\ op_plain = <<>>
    /\ op_optimized = <<>>
    /\ op_paths = <<>>
    /\ op_route = << <<>>, Zero >>

OptimizerInit ==
    /\ op_drill \in [holes : SeqsUpTo(OptimizerHolesIn, MaxHoles)]
    /\ op_start \in StartPointsIn
    /\ op_done = {}
    /\ op_order = <<>>
    /\ op_total = Zero
    /\ op_report = None
    /\ op_plain = <<>>
    /\ op_optimized = <<>>
    /\ op_paths \in OptimizerPathsIn
    /\ op_route = << <<>>, Zero >>

\* optimizer.optimize_drill_path(op_drill, op_start)
OptimizeDrillPath ==
    /\ "optimize_drill_path" \notin op_done
    /\ op_done' = op_done \cup {"optimize_drill_path"}
    /\ op_order' = optimize_drill_path(ToolpathOptimizer, op_drill, op_start)[1]
    /\ op_total' = optimize_drill_path(ToolpathOptimizer, op_drill, op_start)[2]
    /\ UNCHANGED <<op_drill, op_start, op_report, op_plain, op_optimized, op_paths, op_route>>
    /\ UNCHANGED othersOfOptimizer

\* optimizer.compare_optimization(op_drill)
CompareOptimization ==
    /\ "compare_optimization" \notin op_done
    /\ op_done' = op_done \cup {"compare_optimization"}
    /\ op_report' = compare_optimization(ToolpathOptimizer, op_drill)
    /\ UNCHANGED <<op_drill, op_start, op_order, op_total, op_plain, op_optimized,
                   op_paths, op_route>>
    /\ UNCHANGED othersOfOptimizer

\* generator.generate_drill_toolpath(op_drill, optimize_order)
GenerateDrillToolpath ==
    /\ \E optimize_order \in BOOLEAN :
         IF optimize_order
         THEN /\ "generate_drill_toolpath(True)" \notin op_done
              /\ op_done' = op_done \cup {"generate_drill_toolpath(True)"}
              /\ op_optimized' = generate_drill_toolpath(op_drill, TRUE)
              /\ UNCHANGED op_plain
         ELSE /\ "generate_drill_toolpath(False)" \notin op_done
              /\ op_done' = op_done \cup {"generate_drill_toolpath(False)"}
              /\ op_plain' = generate_drill_toolpath(op_drill, FALSE)
              /\ UNCHANGED op_optimized
    /\ UNCHANGED <<op_drill, op_start, op_order, op_total, op_report, op_paths, op_route>>
    /\ UNCHANGED othersOfOptimizer

\* optimizer.optimize_isolation_routing(op_paths, op_start)
OptimizeIsolationRouting ==
    /\ "optimize_isolation_routing" \notin op_done
    /\ op_done' = op_done \cup {"optimize_isolation_routing"}
    /\ op_route' = optimize_isolation_routing(ToolpathOptimizer, op_paths, op_start)
    /\ UNCHANGED <<op_drill, op_start, op_order, op_total, op_report, op_plain, op_optimized,
                   op_paths>>
    /\ UNCHANGED othersOfOptimizer

OptimizerNext ==
    \/ OptimizeDrillPath
    \/ CompareOptimization
    \/ GenerateDrillToolpath
    \/ OptimizeIsolationRouting

\* the routing of path lists on their own
MaxPaths == 3

\* paths: none, a single point, two directed both ways, one far away
RoutingPathsIn == { <<>>, <<PA>>, <<PA, PB>>, <<PB, PA>>, <<PC, PA>> }

RoutingInit ==
    /\ op_drill = DrillData
    /\ op_start \in StartPointsIn
    /\ op_done = {}
    /\ op_order = <<>>
    /\ op_total = Zero
    /\ op_report = None
    /\ op_plain = <<>>
    /\ op_optimized = <<>>
    /\ op_paths \in SeqsUpTo(RoutingPathsIn, MaxPaths)
    /\ op_route = << <<>>, Zero >>

RoutingNext == OptimizeIsolationRouting

\* ---------------------------------------------------- the G-code generator
\* str(k) for an integer k >= 0
RECURSIVE IntStr(_)
IntStr(k) ==
    LET d == <<"0", "1", "2", "3", "4", "5", "6", "7", "8", "9">>[(k % 10) + 1]
    IN  IF k < 10 THEN <<d>> ELSE Append(IntStr(k \div 10), d)

\* |v| * 10^digits rounded to the nearest integer. A value exactly half way
\* between two integers goes to the even one here; Python rounds the binary
\* value of the float, so no modelled input is such a tie.
RoundScaled(v, digits) ==
    LET m == IF v.n < 0 THEN 0 - v.n ELSE v.n
    IN  IF v.e <= digits THEN m * Pow10(digits - v.e)
        ELSE LET unit == Pow10(v.e - digits)
                 q == m \div unit
                 r == m % unit
             IN  IF 2 * r > unit \/ (2 * r = unit /\ q % 2 = 1) THEN q + 1 ELSE q

\* format(v, '.<digits>f'), digits >= 1
FormatFixed(v, digits) ==
    LET m == RoundScaled(v, digits)
    IN  (IF v.n < 0 THEN <<"-">> ELSE <<>>)
        \o IntStr(m \div Pow10(digits))
        \o <<".">>
        \o ZFill(IntStr(m % Pow10(digits)), digits)

\* GCodeGenerator.__init__
GCodeGenerator ==
    [feed_rate |-> Dec(100, 0), travel_z |-> Dec(2, 0), cut_z |-> Dec(0 - 1, 1),
     spindle_speed |-> 10000]

\* z = None
NoZ == NoReference

\* GCodeGenerator.generate_move with G1 and the feed field on every move
generate_move_always_feed(self, x, y, z, feed) ==
    <<"G", "1">> \o <<" ", "X">> \o FormatFixed(x, 3) \o <<" ", "Y">> \o FormatFixed(y, 3)
    \o (IF z # NoZ THEN <<" ", "Z">> \o FormatFixed(z, 3) ELSE <<>>)
    \o <<" ", "F">> \o FormatFixed(self.feed_rate, 1)

\* GCodeGenerator.generate_move
generate_move(self, x, y, z, feed) ==
    LET command == IF feed THEN <<"G", "1">> ELSE <<"G", "0">>
        z_part == IF z # NoZ THEN <<" ", "Z">> \o FormatFixed(z, 3) ELSE <<>>
        feed_part == IF feed THEN <<" ", "F">> \o FormatFixed(self.feed_rate, 1) ELSE <<>>
    IN  command \o <<" ", "X">> \o FormatFixed(x, 3) \o <<" ", "Y">> \o FormatFixed(y, 3)
        \o z_part \o feed_part

\* the loop of generate_drill_path going on to the next hole at cut_z
RECURSIVE DrillMoves_no_retract(_, _)
DrillMoves_no_retract(self, holes) ==
    IF holes = <<>> THEN <<>>
    ELSE << generate_move(self, holes[1][1].x, holes[1][1].y, self.travel_z, FALSE),
            generate_move(self, holes[1][1].x, holes[1][1].y, self.cut_z, TRUE),
            generate_move(self, holes[1][1].x, holes[1][1].y, self.cut_z, FALSE) >>
         \o DrillMoves_no_retract(self, Tail(holes))

\* the loop of generate_drill_path: three moves for every (position, diameter)
RECURSIVE DrillMoves(_, _)
DrillMoves(self, holes) ==
    IF holes = <<>> THEN <<>>
    ELSE << generate_move(self, holes[1][1].x, holes[1][1].y, self.travel_z, FALSE),
            generate_move(self, holes[1][1].x, holes[1][1].y, self.cut_z, TRUE),
            generate_move(self, holes[1][1].x, holes[1][1].y, self.travel_z, FALSE) >>
         \o DrillMoves(self, Tail(holes))

\* GCodeGenerator.generate_drill_path
generate_drill_path(self, holes) == <<<<"(", "D", "r", "i", "l", "l", " ", "h", "o", "l", "e", "s", ")">>>> \o DrillMoves(self, holes)

\* GCodeGenerator.generate_line_path leaving the cut at the first point
generate_line_path_early_retract(self, points) ==
    IF points = <<>> THEN <<>>
    ELSE << generate_move(self, points[1].x, points[1].y, self.travel_z, FALSE),
            generate_move(self, points[1].x, points[1].y, self.cut_z, TRUE) >>
         \o [k \in 1 .. Len(points) - 1 |->
               generate_move(self, points[k + 1].x, points[k + 1].y, self.cut_z, TRUE)]
         \o << generate_move(self, points[1].x, points[1].y, self.travel_z, FALSE) >>

\* GCodeGenerator.generate_line_path
generate_line_path(self, points) ==
    IF points = <<>> THEN <<>>
    ELSE << generate_move(self, points[1].x, points[1].y, self.travel_z, FALSE),
            generate_move(self, points[1].x, points[1].y, self.cut_z, TRUE) >>
         \o [k \in 1 .. Len(points) - 1 |->
               generate_move(self, points[k + 1].x, points[k + 1].y, self.cut_z, TRUE)]
         \o << generate_move(self, points[Len(points)].x, points[Len(points)].y,
                             self.travel_z, FALSE) >>

\* --------------------------------------------------- G-code: the inputs
\* the number of holes of a drill path, of points of a line path
MaxPathLen == 3

GcodeCoordsIn == {Dec(1, 0), Dec(2, 0), Dec(0 - 25, 1), Dec(12346, 4)}

GcodePointsIn ==
    { Point(Dec(1, 0), Dec(2, 0)), Point(Dec(0 - 25, 1), Dec(12346, 4)),
      Point(Dec(12345, 3), Zero) }

GcodeHolesIn == {<<p, Dec(8, 1)>> : p \in GcodePointsIn}

\* main.py sets cut_z and feed_rate from the entry fields
GeneratorsIn ==
    {[GCodeGenerator EXCEPT !.feed_rate = f, !.cut_z = c, !.travel_z = t] :
        f \in {Dec(100, 0), Dec(605, 1)},
        c \in {Dec(0 - 1, 1), Dec(0 - 15, 1)},
        t \in {Dec(2, 0), Dec(5, 0)}}

\* -------------------------------------------------- G-code: the actions
GcodeIdle ==
    /\ gc_self = GCodeGenerator
    /\ gc_call = "none"
    /\ gc_arg = <<>>
    /\ gc_out = <<>>

GcodeInit ==
    /\ gc_self \in GeneratorsIn
    /\ gc_call = "none"
    /\ gc_arg = <<>>
    /\ gc_out = <<>>

\* gcode_gen.generate_move(x, y, z, feed)
GenerateMove ==
    /\ gc_call = "none"
    /\ \E x \in GcodeCoordsIn, y \in GcodeCoordsIn,
          z \in {NoZ, gc_self.travel_z, gc_self.cut_z}, feed \in BOOLEAN :
         /\ gc_arg' = [x |-> x, y |-> y, z |-> z, feed |-> feed]
         /\ gc_out' = <<generate_move(gc_self, x, y, z, feed)>>
    /\ gc_call' = "generate_move"
    /\ UNCHANGED gc_self
    /\ UNCHANGED othersOfGcode

\* gcode_gen.generate_drill_path(holes)
GenerateDrillPath ==
    /\ gc_call = "none"
    /\ \E holes \in SeqsUpTo(GcodeHolesIn, MaxPathLen) :
         /\ gc_arg' = holes
         /\ gc_out' = generate_drill_path(gc_self, holes)
    /\ gc_call' = "generate_drill_path"
    /\ UNCHANGED gc_self
    /\ UNCHANGED othersOfGcode

\* gcode_gen.generate_line_path(points)
GenerateLinePath ==
    /\ gc_call = "none"
    /\ \E points \in SeqsUpTo(GcodePointsIn, MaxPathLen) :
         /\ gc_arg' = points
         /\ gc_out' = generate_line_path(gc_self, points)
    /\ gc_call' = "generate_line_path"
    /\ UNCHANGED gc_self
    /\ UNCHANGED othersOfGcode

GcodeNext == GenerateMove \/ GenerateDrillPath \/ GenerateLinePath

\* ------------------------------------------------ G-code: the program
\* generate_header starting the spindle after the move to the safe height
generate_header_late_spindle(self) ==
    << <<"(", "A", "l", "t", "a", "i", "r", "C", "A", "M", " ", "G", "e", "n", "e", "r", "a", "t", "e", "d", " ", "G", "-", "C", "o", "d", "e", ")">>,
       <<"G", "2", "1", " ", "(", "M", "e", "t", "r", "i", "c", " ", "u", "n", "i", "t", "s", ")">>,
       <<"G", "9", "0", " ", "(", "A", "b", "s", "o", "l", "u", "t", "e", " ", "p", "o", "s", "i", "t", "i", "o", "n", "i", "n", "g", ")">>,
       <<"G", "0", " ", "Z">> \o FormatFixed(self.travel_z, 3) \o <<" ", "(", "M", "o", "v", "e", " ", "t", "o", " ", "s", "a", "f", "e", " ", "h", "e", "i", "g", "h", "t", ")">>,
       <<"M", "3", " ", "S">> \o IntStr(self.spindle_speed) \o <<" ", "(", "S", "t", "a", "r", "t", " ", "s", "p", "i", "n", "d", "l", "e", ")">>,
       <<>> >>

\* GCodeGenerator.generate_header
generate_header(self) ==
    << <<"(", "A", "l", "t", "a", "i", "r", "C", "A", "M", " ", "G", "e", "n", "e", "r", "a", "t", "e", "d", " ", "G", "-", "C", "o", "d", "e", ")">>,
       <<"G", "2", "1", " ", "(", "M", "e", "t", "r", "i", "c", " ", "u", "n", "i", "t", "s", ")">>,
       <<"G", "9", "0", " ", "(", "A", "b", "s", "o", "l", "u", "t", "e", " ", "p", "o", "s", "i", "t", "i", "o", "n", "i", "n", "g", ")">>,
       <<"M", "3", " ", "S">> \o IntStr(self.spindle_speed) \o <<" ", "(", "S", "t", "a", "r", "t", " ", "s", "p", "i", "n", "d", "l", "e", ")">>,
       <<"G", "0", " ", "Z">> \o FormatFixed(self.travel_z, 3) \o <<" ", "(", "M", "o", "v", "e", " ", "t", "o", " ", "s", "a", "f", "e", " ", "h", "e", "i", "g", "h", "t", ")">>,
       <<>> >>

\* GCodeGenerator.generate_footer
generate_footer(self) ==
    << <<>>,
       <<"G", "0", " ", "Z">> \o FormatFixed(self.travel_z, 3) \o <<" ", "(", "M", "o", "v", "e", " ", "t", "o", " ", "s", "a", "f", "e", " ", "h", "e", "i", "g", "h", "t", ")">>,
       <<"M", "5", " ", "(", "S", "t", "o", "p", " ", "s", "p", "i", "n", "d", "l", "e", ")">>,
       <<"M", "2", " ", "(", "E", "n", "d", " ", "p", "r", "o", "g", "r", "a", "m", ")">>,
       <<>> >>

\* the number of path blocks of a program, of holes or points of a block
MaxBlocks == 2

MaxBlockLen == 2

ProgramPointsIn == { Point(Dec(1, 0), Dec(2, 0)), Point(Dec(0 - 25, 1), Dec(12346, 4)) }

ProgramHolesIn == {<<p, Dec(8, 1)>> : p \in ProgramPointsIn}

\* gcode_gen = GCodeGenerator() with cut_z and feed_rate from the entry fields
ProgramGeneratorsIn ==
    {[GCodeGenerator EXCEPT !.feed_rate = f, !.cut_z = c] :
        f \in {Dec(100, 0), Dec(605, 1)}, c \in {Dec(0 - 1, 1), Dec(0 - 15, 1)}}

ProgramIdle ==
    /\ pg_self = GCodeGenerator
    /\ pg_pc = "new"
    /\ pg_code = <<>>
    /\ pg_blocks = 0

ProgramInit ==
    /\ pg_self \in ProgramGeneratorsIn
    /\ pg_pc = "new"
    /\ pg_code = <<>>
    /\ pg_blocks = 0

\* all_gcode.extend(gcode_gen.generate_header())
ProgramHeader ==
    /\ pg_pc = "new"
    /\ pg_code' = pg_code \o generate_header(pg_self)
    /\ pg_pc' = "open"
    /\ UNCHANGED <<pg_self, pg_blocks>>
    /\ UNCHANGED othersOfProgram

\* all_gcode.extend(gcode_gen.generate_line_path(path))
ProgramLinePath ==
    /\ pg_pc = "open" /\ pg_blocks < MaxBlocks
    /\ \E path \in SeqsUpTo(ProgramPointsIn, MaxBlockLen) :
         pg_code' = pg_code \o generate_line_path(pg_self, path)
    /\ pg_blocks' = pg_blocks + 1
    /\ UNCHANGED <<pg_self, pg_pc>>
    /\ UNCHANGED othersOfProgram

\* all_gcode.extend(gcode_gen.generate_drill_path(drill_path))
ProgramDrillPath ==
    /\ pg_pc = "open" /\ pg_blocks < MaxBlocks
    /\ \E drill_path \in SeqsUpTo(ProgramHolesIn, MaxBlockLen) :
         pg_code' = pg_code \o generate_drill_path(pg_self, drill_path)
    /\ pg_blocks' = pg_blocks + 1
    /\ UNCHANGED <<pg_self, pg_pc>>
    /\ UNCHANGED othersOfProgram

\* all_gcode.extend(gcode_gen.generate_footer())
ProgramFooter ==
    /\ pg_pc = "open"
    /\ pg_code' = pg_code \o generate_footer(pg_self)
    /\ pg_pc' = "closed"
    /\ UNCHANGED <<pg_self, pg_blocks>>
    /\ UNCHANGED othersOfProgram

ProgramNext == ProgramHeader \/ ProgramLinePath \/ ProgramDrillPath \/ ProgramFooter

\* ------------------------------------------- parse() called once more
\* the number of parse() calls on one parser object
MaxCalls == 2

\* parse() starting from a new parser
Excellon_parse_enter_reset(self) == ExcellonParser

\* ExcellonParser.parse up to its loop: content is split, self is not touched
Excellon_parse_enter(self) == self

\* parse() starting from a new parser
Gerber_parse_enter_reset(self) == GerberParser

\* GerberParser.parse up to its loop: content is split, self is not touched
Gerber_parse_enter(self) == self

SessionIdle ==
    /\ ss_calls = 1
    /\ ss_left = None

\* only the parser of the session is used
ExcellonSession ==
    /\ gb_count = 0 /\ gb_pc = "scanning"
    /\ IF ss_calls = 1 THEN TRUE ELSE ss_left.kind = "excellon"

GerberSession ==
    /\ ex_count = 0 /\ ex_pc = "scanning"
    /\ IF ss_calls = 1 THEN TRUE ELSE ss_left.kind = "gerber"

\* parser.parse(content) on the ExcellonParser whose parse() has returned
ExcellonParseAgain ==
    /\ ExcellonSession
    /\ ex_pc = "returned" /\ ss_calls < MaxCalls
    /\ excellon' = Excellon_parse_enter(excellon)
    /\ ex_pc' = "scanning"
    /\ ex_matched' = 0 - 1
    /\ ss_calls' = ss_calls + 1
    /\ ss_left' = [kind |-> "excellon", self |-> excellon, line |-> ex_line,
                   count |-> ex_count]
    /\ UNCHANGED <<ex_line, ex_count>>
    /\ UNCHANGED gerberVars
    /\ UNCHANGED othersOfSession

\* parser.parse(content) on the GerberParser whose parse() has returned
GerberParseAgain ==
    /\ GerberSession
    /\ gb_pc = "returned" /\ ss_calls < MaxCalls
    /\ gerber' = Gerber_parse_enter(gerber)
    /\ gb_pc' = "scanning"
    /\ ss_calls' = ss_calls + 1
    /\ ss_left' = [kind |-> "gerber", self |-> gerber, line |-> gb_line,
                   count |-> gb_count]
    /\ UNCHANGED <<gb_line, gb_count, gb_last, gb_end>>
    /\ UNCHANGED excellonVars
    /\ UNCHANGED othersOfSession

\* the lines of the contents handed to the calls of one session
SessionExcellonLines ==
    { <<"I", "N", "C", "H">>, <<"T", "0", "1", "C", "0", ".", "8", "0", "0">>, <<"T", "0", "1">>, <<"X", "-", "1", "5">>, <<" ", "Y", "1", ".", "5">>, <<"M", "3", "0">> }

SessionGerberLines ==
    { <<"%", "M", "O", "I", "N", "*", "%">>, <<"%", "F", "S", "L", "A", "X", "2", "4", "Y", "3", "5", "*", "%">>, <<"%", "A", "D", "D", "1", "0", "C", ",", "0", ".", "1", "0", "0", "0", "0", "0", "*", "%">>, <<"D", "1", "0", "*">>,
      <<"X", "7", "3", "1", "5", "2", "0", "0", "0", "Y", "7", "8", "2", "3", "2", "0", "0", "0", "D", "0", "1", "*">>, <<"Y", "-", "5", "0", "0", "0", "0", "0", "0", "D", "0", "1", "*">>, <<"X", "0", "Y", "0", "D", "0", "3", "*">> }

SessionExcellonLine == ExcellonSession /\ ExcellonLine /\ ex_line' \in SessionExcellonLines

SessionExcellonEnd == ExcellonSession /\ ExcellonEnd

SessionGerberLine == GerberSession /\ GerberLine /\ gb_line' \in SessionGerberLines

SessionGerberEnd == GerberSession /\ GerberEnd

SessionNext ==
    \/ SessionExcellonLine
    \/ SessionExcellonEnd
    \/ ExcellonParseAgain
    \/ SessionGerberLine
    \/ SessionGerberEnd
    \/ GerberParseAgain

\* ------------------------------------------------- the specifications
\* an ExcellonParser reading one drill file
InitExcellon == ExcellonInit /\ GerberInit /\ DecodeIdle /\ MirrorIdle /\ OptimizerIdle /\ GcodeIdle
    /\ ProgramIdle /\ SessionIdle

SpecExcellon == InitExcellon /\ [][ExcellonNext]_vars

\* a GerberParser reading one Gerber file
InitGerber == GerberInit /\ ExcellonInit /\ DecodeIdle /\ MirrorIdle /\ OptimizerIdle /\ GcodeIdle
    /\ ProgramIdle /\ SessionIdle

SpecGerber == InitGerber /\ [][GerberNext]_vars

\* the decoding methods called on a parser in the middle of a file
InitDecode == DecodeInit /\ ExcellonInit /\ GerberInit /\ MirrorIdle /\ OptimizerIdle /\ GcodeIdle
    /\ ProgramIdle /\ SessionIdle

SpecDecode == InitDecode /\ [][DecodeNext]_vars

\* mirror_geometry and mirror_drill_data applied once and twice
InitMirror == MirrorInit /\ ExcellonInit /\ GerberInit /\ DecodeIdle /\ OptimizerIdle /\ GcodeIdle
    /\ ProgramIdle /\ SessionIdle

SpecMirror == InitMirror /\ [][MirrorNext]_vars

\* the optimizer and the drill toolpath generator on one DrillData
InitOptimizer ==
    OptimizerInit /\ ExcellonInit /\ GerberInit /\ DecodeIdle /\ MirrorIdle /\ GcodeIdle
    /\ ProgramIdle /\ SessionIdle

SpecOptimizer == InitOptimizer /\ [][OptimizerNext]_vars

\* one parse() call on one new parser, an ExcellonParser or a GerberParser
InitParsers ==
    ExcellonInit /\ GerberInit /\ DecodeIdle /\ MirrorIdle /\ OptimizerIdle /\ GcodeIdle
    /\ ProgramIdle /\ SessionIdle

ParsersNext ==
    \/ gb_count = 0 /\ gb_pc = "scanning" /\ ExcellonNext
    \/ ex_count = 0 /\ ex_pc = "scanning" /\ GerberNext

SpecParsers == InitParsers /\ [][ParsersNext]_vars

\* one coordinate line X<token> read by one parser
InitToken ==
    TokenInit /\ ExcellonInit /\ GerberInit /\ MirrorIdle /\ OptimizerIdle /\ GcodeIdle
    /\ ProgramIdle /\ SessionIdle

SpecToken == InitToken /\ [][TokenNext]_vars

\* a program assembled from a header, path blocks and a footer
InitProgram ==
    ProgramInit /\ ExcellonInit /\ GerberInit /\ DecodeIdle /\ MirrorIdle /\ OptimizerIdle
    /\ GcodeIdle /\ SessionIdle

SpecProgram == InitProgram /\ [][ProgramNext]_vars

\* parse() called up to MaxCalls times on one parser object
InitSession ==
    SessionIdle /\ ExcellonInit /\ GerberInit /\ DecodeIdle /\ MirrorIdle /\ OptimizerIdle
    /\ GcodeIdle /\ ProgramIdle

SpecSession == InitSession /\ [][SessionNext]_vars

\* optimize_isolation_routing on one list of paths
InitRouting ==
    RoutingInit /\ ExcellonInit /\ GerberInit /\ DecodeIdle /\ MirrorIdle /\ GcodeIdle
    /\ ProgramIdle /\ SessionIdle

SpecRouting == InitRouting /\ [][RoutingNext]_vars

\* one call of a GCodeGenerator method
InitGcode ==
    GcodeInit /\ ExcellonInit /\ GerberInit /\ DecodeIdle /\ MirrorIdle /\ OptimizerIdle
    /\ ProgramIdle /\ SessionIdle

SpecGcode == InitGcode /\ [][GcodeNext]_vars

\* ------------------------------------------------------------ the claims
\* the axes a coordinate line of ExcellonLines carries, in the unit of the
\* file, as one reads them off the line: <<>> for an axis the line omits
AxesOf(line) ==
    CASE line = <<"X", "0", "1", "2", "3", "4", "5", "Y", "0", "6", "7", "8", "9", "0">>
           -> [x |-> <<Dec(12345, 3)>>, y |-> <<Dec(67890, 3)>>]
      [] line = <<"X", "-", "1", "5">>
           -> [x |-> <<Dec(0 - 15, 3)>>, y |-> <<>>]
      [] line = <<" ", "Y", "1", ".", "5">>
           -> [x |-> <<>>, y |-> <<Dec(15, 1)>>]
      [] OTHER -> [x |-> <<>>, y |-> <<>>]

CoordinateLines == {l \in ExcellonLines : AxesOf(l).x # <<>> \/ AxesOf(l).y # <<>>}

\* a number of the file in millimetres
InMillimetres(v, unit) == IF unit = INCH THEN Mul(v, Dec(254, 1)) ELSE v

\* the loop has just consumed a line
ExcellonConsumed == ex_count' = ex_count + 1

\* C1: a coordinate line first moves the running position to the axes it
\* carries (an omitted axis keeps its value) and then appends exactly one
\* DrillHole, at the new position and with the diameter of the current
\* tool, if and only if a tool is selected and is in the tool table;
\* otherwise the hole list is unchanged; nothing else changes.  The
\* scenario M48 / METRIC / T01C0.800 / % / T01 / X012345Y067890 / M30
\* leaves exactly one hole, at (12.345, 67.890) with diameter 0.8.
C1_CoordinateLineStep ==
    (ExcellonConsumed /\ ex_line' \in CoordinateLines) =>
        LET axes == AxesOf(ex_line')
            x == IF axes.x # <<>> THEN InMillimetres(axes.x[1], excellon.unit)
                 ELSE excellon.current_x
            y == IF axes.y # <<>> THEN InMillimetres(axes.y[1], excellon.unit)
                 ELSE excellon.current_y
            tool == excellon.current_tool
        IN  /\ ex_pc' = "scanning"
            /\ excellon'.current_x = x
            /\ excellon'.current_y = y
            /\ excellon'.holes =
                  IF tool # None /\ tool \in DOMAIN excellon.tools
                  THEN excellon.holes \o
                       <<[position |-> [x |-> x, y |-> y],
                          diameter |-> excellon.tools[tool]]>>
                  ELSE excellon.holes
            /\ excellon' = [excellon EXCEPT !.current_x = excellon'.current_x,
                                            !.current_y = excellon'.current_y,
                                            !.holes = excellon'.holes]

C1_Example ==
    ex_matched = Len(ExampleDrill) =>
        /\ ex_pc = "returned"
        /\ excellon.holes =
              <<[position |-> [x |-> Dec(12345, 3), y |-> Dec(6789, 2)],
                 diameter |-> Dec(8, 1)]>>

C1_ExcellonCoordinate == [][C1_CoordinateLineStep]_vars /\ []C1_Example

\* the scenario has run to its end and left its hole
C1_Witness ==
    /\ ex_matched = Len(ExampleDrill)
    /\ ex_line = <<"M", "3", "0">>
    /\ Len(excellon.holes) = 1

\* the loop of GerberParser.parse has just consumed a line
GerberConsumed == gb_count' = gb_count + 1

\* C2: a D01 coordinate line appends a Line from the position held before
\* it to the position after it exactly when draw_mode was already true, and
\* leaves draw_mode true; a D02 coordinate line sets draw_mode false and
\* appends no geometry.  So a D01 line whose most recent preceding D01/D02
\* line is not a D01 (parser start, or a D02) emits no Line, and every
\* emitted Line comes from a D01 line whose most recent preceding D01/D02
\* line was a D01.
C2_DrawModeStep ==
    /\ (GerberConsumed /\ gb_line' \in DrawLines) =>
          /\ gerber'.draw_mode = TRUE
          /\ gerber'.lines =
               IF gerber.draw_mode
               THEN gerber.lines \o
                    <<[start |-> [x |-> gerber.current_x, y |-> gerber.current_y],
                       end |-> [x |-> gerber'.current_x, y |-> gerber'.current_y]]>>
               ELSE gerber.lines
          /\ gerber'.circles = gerber.circles
          /\ gb_last' # "D01" => gerber'.lines = gerber.lines
    /\ (GerberConsumed /\ gb_line' \in MoveLines) =>
          /\ gerber'.draw_mode = FALSE
          /\ gerber'.lines = gerber.lines
          /\ gerber'.circles = gerber.circles
    /\ (GerberConsumed /\ gerber'.lines # gerber.lines) =>
          /\ gb_line' \in DrawLines
          /\ gb_last' = "D01"
    /\ gerber'.arcs = <<>> /\ gerber'.polygons = <<>>

FlashLines ==
    { <<"X", "0", "Y", "0", "D", "0", "3", "*">>, <<"X", "2", "5", "0", "0", "0", "0", "0", "D", "0", "3", "*">> }

\* the radius of a flash, as one reads the aperture definition: diameter / 2
\* for shape C with a single number as parameter, <<>> for no flash
FlashRadius(aperture) ==
    IF aperture.type = "C" /\ aperture.params = <<"0", ".", "1", "0", "0", "0", "0", "0">>
    THEN <<Dec(5, 2)>> ELSE <<>>

\* C3: a D03 coordinate line appends exactly one Circle, centred at the
\* updated running position and with radius diameter / 2, if and only if
\* the current aperture is in the aperture table with shape C and a single
\* number as parameter (D10 = circle 0.1 and X0Y0D03* give the Circle at
\* (0, 0) with radius 0.05); otherwise it appends nothing and raises
\* nothing.  It never appends a Line and never changes draw_mode.
C3_FlashStep ==
    (GerberConsumed /\ gb_line' \in FlashLines) =>
        LET id == gerber.current_aperture
            radius == IF id # None /\ id \in DOMAIN gerber.apertures
                      THEN FlashRadius(gerber.apertures[id]) ELSE <<>>
            centre == [x |-> gerber'.current_x, y |-> gerber'.current_y]
        IN  /\ gb_pc' = "scanning"
            /\ gerber'.circles =
                 IF radius # <<>>
                 THEN gerber.circles \o <<[center |-> centre, radius |-> radius[1]]>>
                 ELSE gerber.circles
            /\ gb_line' = <<"X", "0", "Y", "0", "D", "0", "3", "*">> => centre = [x |-> Zero, y |-> Zero]
            /\ gerber'.lines = gerber.lines
            /\ gerber'.draw_mode = gerber.draw_mode
            /\ gerber'.arcs = <<>> /\ gerber'.polygons = <<>>

C3_GerberFlash == [][C3_FlashStep]_vars

\* D10 = circle 0.1 is current and X0Y0D03* has flashed it
C3_Witness ==
    /\ gb_line = <<"X", "0", "Y", "0", "D", "0", "3", "*">>
    /\ gerber.current_aperture = <<"D", "1", "0">>
    /\ gerber.circles = <<[center |-> [x |-> Zero, y |-> Zero], radius |-> Dec(5, 2)]>>

\* sign and digits of a coordinate string without decimal point
TokenSign(t) == IF t[1] = "-" THEN 0 - 1 ELSE 1

TokenDigitsOf(t) == IF t[1] \in {"+", "-"} THEN Tail(t) ELSE t

\* C4: a coordinate string without decimal point is decoded by stripping
\* the optional sign, left-padding the digits with zeros to
\* integer_digits + decimal_digits, splitting at integer_digits and taking
\* sign * (integer part . fraction part), in the unit of the file; so a
\* string of at most integer_digits + decimal_digits digits decodes to
\* sign * (integer value of the digits) / 10^decimal_digits.
\* decode("012345", (3,3), mm) = 12.345, decode("73152000", (4,6), mm) =
\* 73.152.
C4_FixedPointDecode ==
    (dc_call = "convert" /\ dc_arg \in IntegerTokens) =>
        LET int_digits == dc_self.format_spec[1]
            dec_digits == dc_self.format_spec[2]
            digits == TokenDigitsOf(dc_arg)
            padded == [k \in 1..Max(Len(digits), int_digits + dec_digits) |->
                         IF k <= Max(Len(digits), int_digits + dec_digits) - Len(digits)
                         THEN "0"
                         ELSE digits[k - (Max(Len(digits), int_digits + dec_digits)
                                          - Len(digits))]]
            int_part == IntVal(SubSeq(padded, 1, int_digits))
            dec_part == IntVal(SubSeq(padded, int_digits + 1, int_digits + dec_digits))
        IN  /\ dc_ret = InMillimetres(
                          Dec(TokenSign(dc_arg) * (int_part * Pow10(dec_digits) + dec_part),
                              dec_digits), dc_self.unit)
            /\ Len(digits) <= int_digits + dec_digits =>
                 dc_ret = InMillimetres(Dec(TokenSign(dc_arg) * IntVal(digits), dec_digits),
                                        dc_self.unit)
            /\ ( /\ dc_arg = <<"0", "1", "2", "3", "4", "5">>
                 /\ dc_self.format_spec = <<3, 3>> /\ dc_self.unit = MM )
                   => dc_ret = Dec(12345, 3)
            /\ ( /\ dc_arg = <<"7", "3", "1", "5", "2", "0", "0", "0">>
                 /\ dc_self.format_spec = <<4, 6>> /\ dc_self.unit = MM )
                   => dc_ret = Dec(73152, 3)

\* the Gerber decoder has decoded "73152000" under (4, 6) and mm
C4_Witness ==
    /\ dc_call = "convert" /\ dc_parser = "gerber"
    /\ dc_arg = <<"7", "3", "1", "5", "2", "0", "0", "0">>
    /\ dc_self.format_spec = <<4, 6>> /\ dc_self.unit = MM
    /\ dc_ret = Dec(73152, 3)

\* the tool number and the diameter literal of a tool definition line, as
\* one reads them
ToolLiteral(line) ==
    CASE line = <<"T", "0", "1", "C", "0", ".", "8", "0", "0">> -> [number |-> <<"0", "1">>, diameter |-> Dec(8, 1)]
      [] line = <<"T", "2", "C", ".", "5">> -> [number |-> <<"2">>, diameter |-> Dec(5, 1)]
      [] line = <<"T", "1", "0", "C", "1", "2">> -> [number |-> <<"1", "0">>, diameter |-> Dec(12, 0)]

\* what the called decoder returns for dc_arg when the unit of dc_self is mm
DecodedInMM ==
    IF dc_parser = "gerber"
    THEN Gerber_convert_coordinate(dc_arg, dc_self.format_spec, MM)
    ELSE Excellon_convert_coordinate(dc_arg, dc_self.format_spec, MM)

\* C5: a coordinate string decoded while the unit is inch gives 25.4 times
\* what the same string gives under the same format spec while the unit is
\* mm (and raises when that raises); an Excellon tool diameter defined
\* while the unit is inch is stored as 25.4 times its decimal literal, and
\* as the literal itself while the unit is mm.
C5_UnitNormalisation ==
    /\ dc_call = "convert" =>
          IF IsError(DecodedInMM) THEN IsError(dc_ret)
          ELSE dc_ret = IF dc_self.unit = INCH THEN Mul(Dec(254, 1), DecodedInMM)
                        ELSE DecodedInMM
    /\ dc_call = "tooldef" =>
          /\ DOMAIN dc_self.tools = {ToolLiteral(dc_arg).number}
          /\ dc_self.tools[ToolLiteral(dc_arg).number] =
               IF dc_self.unit = INCH
               THEN Mul(Dec(254, 1), ToolLiteral(dc_arg).diameter)
               ELSE ToolLiteral(dc_arg).diameter

\* T01C0.800 has been defined while the unit was inch: 20.32 mm
C5_Witness ==
    /\ dc_call = "tooldef" /\ dc_self.unit = INCH
    /\ dc_arg = <<"T", "0", "1", "C", "0", ".", "8", "0", "0">>
    /\ dc_self.tools[<<"0", "1">>] = Dec(2032, 2)

\* ---------------------------------------------------------------- mirror
\* the reflection the documentation describes, written without mirror_point
Reflected(p, axis, r) ==
    IF axis = "x" THEN [x |-> p.x, y |-> Sub(Add(r, r), p.y)]
    ELSE [x |-> Sub(Add(r, r), p.x), y |-> p.y]

\* out is the pointwise reflection of in: same primitives in the same order,
\* every point reflected, radii and diameters untouched
IsReflection(kind, in, out, axis, r) ==
    IF kind = "drill"
    THEN /\ Len(out.holes) = Len(in.holes)
         /\ \A i \in DOMAIN in.holes :
              /\ out.holes[i].position = Reflected(in.holes[i].position, axis, r)
              /\ out.holes[i].diameter = in.holes[i].diameter
    ELSE /\ Len(out.lines) = Len(in.lines)
         /\ Len(out.arcs) = Len(in.arcs)
         /\ Len(out.circles) = Len(in.circles)
         /\ Len(out.polygons) = Len(in.polygons)
         /\ \A i \in DOMAIN in.lines :
              /\ out.lines[i].start = Reflected(in.lines[i].start, axis, r)
              /\ out.lines[i].end = Reflected(in.lines[i].end, axis, r)
         /\ \A i \in DOMAIN in.arcs :
              /\ out.arcs[i].start = Reflected(in.arcs[i].start, axis, r)
              /\ out.arcs[i].end = Reflected(in.arcs[i].end, axis, r)
              /\ out.arcs[i].center = Reflected(in.arcs[i].center, axis, r)
         /\ \A i \in DOMAIN in.circles :
              /\ out.circles[i].center = Reflected(in.circles[i].center, axis, r)
              /\ out.circles[i].radius = in.circles[i].radius
         /\ \A i \in DOMAIN in.polygons :
              /\ Len(out.polygons[i].points) = Len(in.polygons[i].points)
              /\ \A k \in DOMAIN in.polygons[i].points :
                   out.polygons[i].points[k] = Reflected(in.polygons[i].points[k], axis, r)

Mirrored == mr_kind \in {"geometry", "drill"} /\ mr_count >= 1

C7_MirrorMap ==
    /\ (Mirrored /\ mr_reference # NoReference) =>
         IsReflection(mr_kind, mr_input, mr_once, mr_axis, mr_reference)
    /\ (Mirrored /\ mr_count = 2 /\ mr_reference # NoReference) =>
         IsReflection(mr_kind, mr_once, mr_twice, mr_axis, mr_reference)

\* two holes mirrored about x = -2: (1, -2.5) has gone to (-5, -2.5) and
\* (-4, 3) to (0, 3), in the same order, with their diameters
C7_Witness ==
    /\ mr_kind = "drill" /\ mr_count = 1
    /\ mr_axis = "y" /\ mr_reference = Dec(0 - 2, 0)
    /\ mr_input.holes = <<DrillHole(PB, Dec(8, 1)), DrillHole(PC, Dec(12, 1))>>
    /\ mr_once.holes = << DrillHole(Point(Dec(0 - 5, 0), Dec(0 - 25, 1)), Dec(8, 1)),
                          DrillHole(Point(Zero, Dec(3, 0)), Dec(12, 1)) >>

\* the coordinates, on the mirrored axis, that get_bounds() looks at
ExtentOf(kind, in, axis) ==
    LET co(p) == IF axis = "x" THEN p.y ELSE p.x
    IN  IF kind = "drill" THEN {co(in.holes[i].position) : i \in DOMAIN in.holes}
        ELSE {co(in.lines[i].start) : i \in DOMAIN in.lines}
             \cup {co(in.lines[i].end) : i \in DOMAIN in.lines}
             \cup {co(in.arcs[i].start) : i \in DOMAIN in.arcs}
             \cup {co(in.arcs[i].end) : i \in DOMAIN in.arcs}
             \cup {co(in.arcs[i].center) : i \in DOMAIN in.arcs}
             \cup {Sub(co(in.circles[i].center), in.circles[i].radius) : i \in DOMAIN in.circles}
             \cup {Add(co(in.circles[i].center), in.circles[i].radius) : i \in DOMAIN in.circles}
             \cup UNION {{co(in.polygons[i].points[k]) : k \in DOMAIN in.polygons[i].points} :
                           i \in DOMAIN in.polygons}

\* (min + max) / 2 of the extent, 0 when there is none
MidpointOf(S) ==
    IF S = {} THEN Zero
    ELSE LET lo == CHOOSE v \in S : \A w \in S : ~Less(w, v)
             hi == CHOOSE v \in S : \A w \in S : ~Less(v, w)
         IN  Half(Add(lo, hi))

BoundsOfContainer(kind, c) ==
    IF kind = "drill" THEN DrillData_get_bounds(c) ELSE Geometry_get_bounds(c)

CountIn(q, e) == Cardinality({k \in DOMAIN q : q[k] = e})

SameMultiset(p, q) ==
    /\ Len(p) = Len(q)
    /\ \A k \in DOMAIN p : CountIn(p, p[k]) = CountIn(q, p[k])

\* C9: optimize_drill_path returns each hole index 0..n-1 exactly once,
\* whatever the start point, and generate_drill_toolpath with optimize_order
\* True lists the same (position, diameter) entries, each as often, as with
\* optimize_order False: no hole is dropped or duplicated.
C9_Permutation ==
    /\ "optimize_drill_path" \in op_done =>
         /\ Len(op_order) = Len(op_drill.holes)
         /\ \A i \in 0 .. Len(op_drill.holes) - 1 : CountIn(op_order, i) = 1
    /\ "generate_drill_toolpath(False)" \in op_done =>
         op_plain = [i \in DOMAIN op_drill.holes |->
                       <<op_drill.holes[i].position, op_drill.holes[i].diameter>>]
    /\ {"generate_drill_toolpath(False)", "generate_drill_toolpath(True)"} \subseteq op_done =>
         SameMultiset(op_plain, op_optimized)

\* three holes, two of them at the same place with different diameters,
\* visited in another order than the file's
C9_Witness ==
    /\ {"optimize_drill_path", "generate_drill_toolpath(False)",
        "generate_drill_toolpath(True)"} \subseteq op_done
    /\ Len(op_drill.holes) = 3
    /\ op_drill.holes[1].position = op_drill.holes[3].position
    /\ op_drill.holes[1].diameter # op_drill.holes[3].diameter
    /\ op_order # <<0, 1, 2>>
    /\ op_optimized # op_plain

\* C10: for a non-empty DrillData the optimized_distance reported by
\* compare_optimization is at most its original_distance.
C10_OptimizedNotLonger ==
    ("compare_optimization" \in op_done /\ op_drill.holes # <<>>) =>
        LessEq(op_report.optimized_distance, op_report.original_distance)

\* one hole at (3, 4): the file order and the nearest-neighbor order are the
\* same walk of length 5, and the report says 5 before and 10 after
C10_SingleHole ==
    /\ "compare_optimization" \in op_done
    /\ Len(op_drill.holes) = 1
    /\ op_drill.holes[1].position = [x |-> Dec(3, 0), y |-> Dec(4, 0)]
    /\ op_report.optimized_indices = <<0>>
    /\ op_report.original_distance = Dec(5, 0)
    /\ op_report.optimized_distance = Dec(10, 0)

\* the length of the walk from `from` through the positions of holes, in order
RECURSIVE WalkLength(_, _)
WalkLength(from, holes) ==
    IF holes = <<>> THEN Zero
    ELSE Add(Optimizer_distance(from, Head(holes).position),
             WalkLength(Head(holes).position, Tail(holes)))

\* C11: for a non-empty DrillData compare_optimization reports
\* original_distance as the length of the walk start -> hole 0 -> ... ->
\* hole n-1, optimized_distance as the distance optimize_drill_path returns
\* for that data from the same start, and improvement_percent as
\* (original - optimized) / original * 100, or 0 when original is 0.
C11_Report ==
    ("compare_optimization" \in op_done /\ op_drill.holes # <<>>) =>
        /\ op_report.original_distance
             = WalkLength(ToolpathOptimizer.start_point, op_drill.holes)
        /\ op_report.optimized_distance
             = optimize_drill_path(ToolpathOptimizer, op_drill, NoPoint)[2]
        /\ op_report.improvement_percent
             = IF op_report.original_distance = Zero THEN Zero
               ELSE Mul(Div(Sub(op_report.original_distance, op_report.optimized_distance),
                            op_report.original_distance), Dec(100, 0))

\* holes at (-2, 0), (1, 0), (4, 0): the nearest-neighbor order 1, 0, 2
\* travels 10 from the origin, and the report says 11
C11_DoubleCount ==
    /\ {"compare_optimization", "optimize_drill_path"} \subseteq op_done
    /\ op_start = NoPoint
    /\ Len(op_drill.holes) = 3
    /\ op_report.optimized_indices = <<1, 0, 2>>
    /\ op_order = <<1, 0, 2>>
    /\ op_total = Dec(10, 0)
    /\ op_report.original_distance = Dec(8, 0)
    /\ op_report.optimized_distance = Dec(11, 0)

\* what C11 says of original_distance and improvement_percent, which holds
C11_OriginalAndPercent ==
    ("compare_optimization" \in op_done /\ op_drill.holes # <<>>) =>
        /\ op_report.original_distance
             = WalkLength(ToolpathOptimizer.start_point, op_drill.holes)
        /\ op_report.improvement_percent
             = IF op_report.original_distance = Zero THEN Zero
               ELSE Mul(Div(Sub(op_report.original_distance, op_report.optimized_distance),
                            op_report.original_distance), Dec(100, 0))

\* C12: on an empty collection optimize_drill_path and
\* optimize_isolation_routing return an empty order and distance 0, and
\* compare_optimization returns a report with all four fields: zero
\* distances, zero improvement and an empty optimized_indices.
C12_Degenerate ==
    /\ ("optimize_drill_path" \in op_done /\ op_drill.holes = <<>>) =>
         op_order = <<>> /\ op_total = Zero
    /\ ("optimize_isolation_routing" \in op_done /\ op_paths = <<>>) =>
         op_route[1] = <<>> /\ op_route[2] = Zero
    /\ ("compare_optimization" \in op_done /\ op_drill.holes = <<>>) =>
         /\ op_report.original_distance = Zero
         /\ op_report.optimized_distance = Zero
         /\ op_report.improvement_percent = Zero
         /\ "optimized_indices" \in DOMAIN op_report
         /\ op_report.optimized_indices = <<>>

\* the report for an empty DrillData: three fields, no optimized_indices
C12_MissingField ==
    /\ "compare_optimization" \in op_done
    /\ op_drill.holes = <<>>
    /\ DOMAIN op_report = {"original_distance", "optimized_distance", "improvement_percent"}

\* what C12 says of the two orders and of the three fields that are there,
\* which holds
C12_EmptyOrders ==
    /\ ("optimize_drill_path" \in op_done /\ op_drill.holes = <<>>) =>
         op_order = <<>> /\ op_total = Zero
    /\ ("optimize_isolation_routing" \in op_done /\ op_paths = <<>>) =>
         op_route[1] = <<>> /\ op_route[2] = Zero
    /\ ("compare_optimization" \in op_done /\ op_drill.holes = <<>>) =>
         /\ op_report.original_distance = Zero
         /\ op_report.optimized_distance = Zero
         /\ op_report.improvement_percent = Zero

\* ----------------------------------------------------------------- G-code
\* the words of a line: the pieces between blanks
RECURSIVE Words(_)
Words(line) ==
    IF \A i \in DOMAIN line : line[i] # " " THEN <<line>>
    ELSE LET i == CHOOSE k \in DOMAIN line :
                    line[k] = " " /\ \A j \in 1 .. k - 1 : line[j] # " "
         IN  <<SubSeq(line, 1, i - 1)>> \o Words(SubSeq(line, i + 1, Len(line)))

\* the word of a line that starts with letter, <<>> when there is none
WordOf(line, letter) ==
    LET ws == Words(line)
        at == {k \in DOMAIN ws : ws[k] # <<>> /\ ws[k][1] = letter}
    IN  IF at = {} THEN <<>> ELSE ws[CHOOSE k \in at : \A j \in at : k <= j]

\* the number a word carries after its letter
ValueOf(word) == ParseFloat(Tail(word))

\* the number of digits a word has after its decimal point, -1 without one
DecimalsOf(word) ==
    LET dots == {k \in DOMAIN word : word[k] = "."}
    IN  IF Cardinality(dots) # 1 THEN 0 - 1
        ELSE Len(word) - (CHOOSE k \in dots : TRUE)

\* t is v written with `digits` decimals: as close to v as that allows
Writes(word, v, digits) ==
    /\ DecimalsOf(word) = digits
    /\ \A k \in 2 .. Len(word) : word[k] \in DigitChars \cup {".", "-"}
    /\ LessEq(Sub(ValueOf(word), v), Dec(5, digits + 1))
    /\ LessEq(Sub(v, ValueOf(word)), Dec(5, digits + 1))

\* line is the command cmd to (x, y, z), with the feed field when cmd is G1
IsMove(line, cmd, x, y, z, self) ==
    /\ Words(line)[1] = cmd
    /\ Writes(WordOf(line, "X"), x, 3)
    /\ Writes(WordOf(line, "Y"), y, 3)
    /\ Writes(WordOf(line, "Z"), z, 3)
    /\ IF cmd = <<"G", "1">> THEN Writes(WordOf(line, "F"), self.feed_rate, 1)
       ELSE WordOf(line, "F") = <<>>

\* the X and Y words of a line
XYOf(line) == <<WordOf(line, "X"), WordOf(line, "Y")>>

\* C13: generate_drill_path emits one comment line and then, for every hole
\* in input order, G0 to (x, y, travel_z), G1 to (x, y, cut_z) and G0 back
\* to (x, y, travel_z). So XY changes only on a G0 that carries travel_z and
\* follows a command at travel_z, and every command at cut_z is a G1 with
\* the XY of the command before it.
C13_DrillCycle ==
    gc_call = "generate_drill_path" =>
        /\ Len(gc_out) = 1 + 3 * Len(gc_arg)
        /\ gc_out[1] = <<"(", "D", "r", "i", "l", "l", " ", "h", "o", "l", "e", "s", ")">>
        /\ \A i \in DOMAIN gc_arg :
             /\ IsMove(gc_out[3 * i - 1], <<"G", "0">>, gc_arg[i][1].x, gc_arg[i][1].y,
                       gc_self.travel_z, gc_self)
             /\ IsMove(gc_out[3 * i], <<"G", "1">>, gc_arg[i][1].x, gc_arg[i][1].y,
                       gc_self.cut_z, gc_self)
             /\ IsMove(gc_out[3 * i + 1], <<"G", "0">>, gc_arg[i][1].x, gc_arg[i][1].y,
                       gc_self.travel_z, gc_self)
        /\ \A k \in 2 .. Len(gc_out) - 1 :
             /\ XYOf(gc_out[k + 1]) # XYOf(gc_out[k]) =>
                  /\ Words(gc_out[k + 1])[1] = <<"G", "0">>
                  /\ WordOf(gc_out[k + 1], "Z") = <<"Z">> \o FormatFixed(gc_self.travel_z, 3)
                  /\ WordOf(gc_out[k], "Z") = WordOf(gc_out[k + 1], "Z")
             /\ WordOf(gc_out[k + 1], "Z") = <<"Z">> \o FormatFixed(gc_self.cut_z, 3) =>
                  /\ Words(gc_out[k + 1])[1] = <<"G", "1">>
                  /\ XYOf(gc_out[k + 1]) = XYOf(gc_out[k])

\* two holes with the default generator: seven lines, the plunge of the
\* first hole and the rapid to the second as written
C13_Witness ==
    /\ gc_call = "generate_drill_path"
    /\ gc_self = GCodeGenerator
    /\ Len(gc_arg) = 2
    /\ gc_arg[1][1] = [x |-> Dec(1, 0), y |-> Dec(2, 0)]
    /\ gc_arg[2][1] = [x |-> Dec(0 - 25, 1), y |-> Dec(12346, 4)]
    /\ Len(gc_out) = 7
    /\ gc_out[3] = <<"G", "1", " ", "X", "1", ".", "0", "0", "0", " ", "Y", "2", ".", "0", "0", "0", " ", "Z", "-", "0", ".", "1", "0", "0", " ", "F", "1", "0", "0", ".", "0">>
    /\ gc_out[5] = <<"G", "0", " ", "X", "-", "2", ".", "5", "0", "0", " ", "Y", "1", ".", "2", "3", "5", " ", "Z", "2", ".", "0", "0", "0">>

\* C14: generate_line_path on k >= 1 points emits k + 2 commands: G0 to the
\* first point at travel_z, G1 to the first point at cut_z, a G1 at cut_z to
\* each further point in order, G0 to the last point at travel_z; on an
\* empty list it emits nothing.
C14_LinePath ==
    gc_call = "generate_line_path" =>
        IF gc_arg = <<>> THEN gc_out = <<>>
        ELSE /\ Len(gc_out) = Len(gc_arg) + 2
             /\ IsMove(gc_out[1], <<"G", "0">>, gc_arg[1].x, gc_arg[1].y,
                       gc_self.travel_z, gc_self)
             /\ \A j \in DOMAIN gc_arg :
                  IsMove(gc_out[j + 1], <<"G", "1">>, gc_arg[j].x, gc_arg[j].y,
                         gc_self.cut_z, gc_self)
             /\ IsMove(gc_out[Len(gc_arg) + 2], <<"G", "0">>, gc_arg[Len(gc_arg)].x,
                       gc_arg[Len(gc_arg)].y, gc_self.travel_z, gc_self)

\* three different points: five commands, the last a retract at the third
C14_Witness ==
    /\ gc_call = "generate_line_path"
    /\ gc_self = GCodeGenerator
    /\ Len(gc_arg) = 3
    /\ gc_arg[1] # gc_arg[3] /\ gc_arg[1] # gc_arg[2] /\ gc_arg[2] # gc_arg[3]
    /\ gc_arg[3] = [x |-> Dec(12345, 3), y |-> Zero]
    /\ Len(gc_out) = 5
    /\ gc_out[5] = <<"G", "0", " ", "X", "1", "2", ".", "3", "4", "5", " ", "Y", "0", ".", "0", "0", "0", " ", "Z", "2", ".", "0", "0", "0">>

\* C15: generate_move writes G0 when feed is false, and G1 with a final
\* F<feed_rate> field of 1 decimal when feed is true; X and Y are always
\* there with 3 decimals; Z is there, with 3 decimals, exactly when z is
\* given. generate_move(1.0, 2.0, None, False) is "G0 X1.000 Y2.000" and,
\* with feed and feed_rate 100.0, "G1 X1.000 Y2.000 F100.0".
C15_Move ==
    gc_call = "generate_move" =>
        LET line == gc_out[1]
            ws == Words(line)
            nz == IF gc_arg.z = NoZ THEN 0 ELSE 1
        IN  /\ Len(gc_out) = 1
            /\ Len(ws) = 3 + nz + (IF gc_arg.feed THEN 1 ELSE 0)
            /\ ws[1] = (IF gc_arg.feed THEN <<"G", "1">> ELSE <<"G", "0">>)
            /\ ws[2][1] = "X" /\ Writes(ws[2], gc_arg.x, 3)
            /\ ws[3][1] = "Y" /\ Writes(ws[3], gc_arg.y, 3)
            /\ nz = 1 => ws[4][1] = "Z" /\ Writes(ws[4], gc_arg.z, 3)
            /\ nz = 0 => WordOf(line, "Z") = <<>>
            /\ gc_arg.feed => ws[Len(ws)][1] = "F" /\ Writes(ws[Len(ws)], gc_self.feed_rate, 1)
            /\ ~gc_arg.feed => WordOf(line, "F") = <<>>
            /\ (gc_arg.x = Dec(1, 0) /\ gc_arg.y = Dec(2, 0) /\ nz = 0 /\ ~gc_arg.feed) =>
                 line = <<"G", "0", " ", "X", "1", ".", "0", "0", "0", " ", "Y", "2", ".", "0", "0", "0">>
            /\ (gc_arg.x = Dec(1, 0) /\ gc_arg.y = Dec(2, 0) /\ nz = 0 /\ gc_arg.feed
                /\ gc_self.feed_rate = Dec(100, 0)) =>
                 line = <<"G", "1", " ", "X", "1", ".", "0", "0", "0", " ", "Y", "2", ".", "0", "0", "0", " ", "F", "1", "0", "0", ".", "0">>

\* a feed move with z and a coordinate of four decimals, as written
C15_Witness ==
    /\ gc_call = "generate_move"
    /\ gc_arg = [x |-> Dec(12346, 4), y |-> Dec(0 - 25, 1), z |-> Dec(0 - 15, 1),
                 feed |-> TRUE]
    /\ gc_self.feed_rate = Dec(605, 1)
    /\ gc_out = <<<<"G", "1", " ", "X", "1", ".", "2", "3", "5", " ", "Y", "-", "2", ".", "5", "0", "0", " ", "Z", "-", "1", ".", "5", "0", "0", " ", "F", "6", "0", ".", "5">>>>

\* ----------------------------------------------------------------- bounds
\* b is the box of the container c: (0,0),(0,0) when c holds no point,
\* otherwise every x and y the container extends to lies between b[1] and
\* b[2], and each of the four bounds is one of them
IsBoundingBox(kind, c, b) ==
    LET xs == ExtentOf(kind, c, "y")
        ys == ExtentOf(kind, c, "x")
    IN  IF xs = {}
        THEN b = << [x |-> Zero, y |-> Zero], [x |-> Zero, y |-> Zero] >>
        ELSE /\ \A v \in xs : LessEq(b[1].x, v) /\ LessEq(v, b[2].x)
             /\ \A v \in ys : LessEq(b[1].y, v) /\ LessEq(v, b[2].y)
             /\ LessEq(b[1].x, b[2].x) /\ LessEq(b[1].y, b[2].y)
             /\ b[1].x \in xs /\ b[2].x \in xs
             /\ b[1].y \in ys /\ b[2].y \in ys

\* C16: get_bounds of a Geometry or DrillData is (Point(0,0), Point(0,0))
\* for an empty container; otherwise it is (min, max) with every line end,
\* arc start, end and centre, polygon vertex, hole position and circle
\* extent centre -/+ radius inside [min.x, max.x] x [min.y, max.y],
\* min <= max on both axes, and each of the four bounds attained.
C16_Bounds ==
    mr_kind \in {"geometry", "drill"} =>
        /\ IsBoundingBox(mr_kind, mr_input, BoundsOfContainer(mr_kind, mr_input))
        /\ IsBoundingBox(mr_kind, mr_once, BoundsOfContainer(mr_kind, mr_once))

\* mirror_geometry without a reference has taken the bounds of a line and a
\* circle: the circle's extent, not its centre and not the line, gives the
\* upper x bound
C16_Witness ==
    /\ mr_kind = "geometry" /\ mr_count = 1 /\ mr_reference = NoReference
    /\ Len(mr_input.lines) = 1 /\ Len(mr_input.circles) = 1
    /\ Geometry_get_bounds(mr_input)[2].x
         = Add(mr_input.circles[1].center.x, mr_input.circles[1].radius)
    /\ Less(mr_input.circles[1].center.x, Geometry_get_bounds(mr_input)[2].x)
    /\ Less(mr_input.lines[1].start.x, Geometry_get_bounds(mr_input)[2].x)
    /\ Less(mr_input.lines[1].end.x, Geometry_get_bounds(mr_input)[2].x)
    /\ Less(Geometry_get_bounds(mr_input)[1].x, Geometry_get_bounds(mr_input)[2].x)

\* ------------------------------------------------------------ end of file
\* C17: the scan of ExcellonParser.parse ends at a line equal to M30: the
\* line itself changes nothing, parse() returns, and from then on no line of
\* the input is read and the unit, tool table, current tool, running
\* position and hole list stay as they were.
C17_M30Step ==
    /\ (ExcellonConsumed /\ Strip(ex_line') = <<"M", "3", "0">>) =>
         ex_pc' = "returned" /\ excellon' = excellon
    /\ ex_pc = "returned" =>
         ex_pc' = "returned" /\ excellon' = excellon /\ ex_count' = ex_count

C17_M30Ends == [][C17_M30Step]_vars

\* parse() has returned at M30 with a tool defined and selected, before the
\* longest modelled file would have ended
C17_Witness ==
    /\ ex_pc = "returned"
    /\ ex_line = <<"M", "3", "0">>
    /\ ex_count < MaxFileLines
    /\ excellon.current_tool # None
    /\ excellon.current_tool \in DOMAIN excellon.tools

\* C18: GerberParser.parse terminates on the end-of-program marker M02: the
\* lines that follow it in the input change no parser state and add no
\* geometry.
C18_M02Step == gb_end > 0 => gerber' = gerber

C18_M02Ends == [][C18_M02Step]_vars

\* M02* was the first line, and the two D01 lines after it have moved the
\* position and left a Line in the geometry
C18_AfterM02 ==
    /\ gb_end = 1
    /\ gb_count = 3
    /\ Len(gerber.lines) = 1
    /\ gerber.current_x # Zero

\* ------------------------------------------------------- tool selection
\* the tool-select lines T<digits> of ExcellonLines and the number they name
SelectedTool(line) ==
    CASE line = <<"T", "0", "1">> -> <<"0", "1">>
      [] line = <<"T", "0", "2">> -> <<"0", "2">>
      [] OTHER -> <<>>

\* C19: a tool-select line T<digits> naming a tool that is not in the tool
\* table is a no-op: the current tool keeps the value it had, so later
\* coordinate lines go on drilling with the previously selected tool.
C19_UndefinedSelectStep ==
    (/\ ExcellonConsumed
     /\ SelectedTool(ex_line') # <<>>
     /\ SelectedTool(ex_line') \notin DOMAIN excellon.tools) =>
        excellon' = excellon

C19_UndefinedSelect == [][C19_UndefinedSelectStep]_vars

\* T01C0.800 / T01 / T02 / coordinate line: tool 02, which was never
\* defined, is the current tool, and the coordinate line left no hole
C19_LostTool ==
    /\ ex_count = 4
    /\ ex_line \in CoordinateLines
    /\ DOMAIN excellon.tools = {<<"0", "1">>}
    /\ excellon.current_tool = <<"0", "2">>
    /\ excellon.holes = <<>>

\* ----------------------------------------------------------------- errors
\* the coordinate lines of ExcellonLines whose token is not a number
MalformedCoordinateLines == {<<"X", "1", ".", "2", ".", "3">>}

\* C20: parse() fails exactly when the payload of a coordinate token is not
\* a valid number (Excellon X1.2.3), and that error reaches the caller;
\* every other line raises nothing: an unrecognized line, a reference to an
\* undefined tool, and any other line at most emits no geometry.
C20_ErrorStep ==
    ExcellonConsumed =>
        /\ ex_pc' = "raised" <=> ex_line' \in MalformedCoordinateLines
        /\ ex_pc' = "raised" => excellon'.holes = excellon.holes

C20_Errors == [][C20_ErrorStep]_vars

\* the tool definition T03C1.2.3 has raised out of parse()
C20_ToolDefinitionRaised ==
    /\ ex_pc = "raised"
    /\ ex_line = <<"T", "0", "3", "C", "1", ".", "2", ".", "3">>
    /\ excellon.tools = <<>>

\* C20 with the diameter of a tool definition counted among the numbers to
\* decode: parse() fails exactly when the payload of a coordinate token or
\* the diameter literal of a tool definition is not a valid number (X1.2.3,
\* T03C1.2.3), the error reaches the caller and the line adds no hole; every
\* other line raises nothing.
C20_DecodeErrorsOnly ==
    [][ExcellonConsumed =>
          /\ ex_pc' = "raised" <=> ex_line' \in {<<"X", "1", ".", "2", ".", "3">>, <<"T", "0", "3", "C", "1", ".", "2", ".", "3">>}
          /\ ex_pc' = "raised" => excellon'.holes = excellon.holes]_vars

\* GerberParser.parse raises on none of the modelled lines: undefined,
\* non-circular and unparsable apertures on a flash, and unrecognized lines
\* add no geometry and raise nothing
C20_GerberNeverRaises == gb_pc # "raised"

\* ------------------------------------------------------ nearest neighbour
\* the square of the Euclidean distance of p and q, exactly
SqDist(p, q) ==
    Add(Mul(Sub(q.x, p.x), Sub(q.x, p.x)), Mul(Sub(q.y, p.y), Sub(q.y, p.y)))

\* the start point a call with start_point uses
StartOf(start_point) == IF start_point = NoPoint THEN [x |-> Zero, y |-> Zero] ELSE start_point

\* order (indices from 0) is the greedy walk over the points first[i], each
\* visit ending at last[i]: every index chosen is unvisited, nearest to the
\* current position among the unvisited, and the lowest among the nearest
IsGreedy(order, first, last, start) ==
    \A k \in DOMAIN order :
        LET cur == IF k = 1 THEN start ELSE last[order[k - 1] + 1]
            before == {order[j] : j \in 1 .. k - 1}
            c == order[k]
        IN  /\ c \in 0 .. Len(first) - 1
            /\ c \notin before
            /\ \A u \in (0 .. Len(first) - 1) \ before :
                 /\ LessEq(SqDist(cur, first[c + 1]), SqDist(cur, first[u + 1]))
                 /\ SqDist(cur, first[c + 1]) = SqDist(cur, first[u + 1]) => c <= u

\* the sum of the legs of the walk: to first[order[k]] from where the visit
\* before it ended
RECURSIVE LegsLength(_, _, _, _)
LegsLength(order, first, last, start) ==
    IF order = <<>> THEN Zero
    ELSE LET k == Len(order)
             cur == IF k = 1 THEN start ELSE last[order[k - 1] + 1]
         IN  Add(LegsLength(SubSeq(order, 1, k - 1), first, last, start),
                 Optimizer_distance(cur, first[order[k] + 1]))

HolePositions == [i \in DOMAIN op_drill.holes |-> op_drill.holes[i].position]

\* C21: optimize_drill_path appends at every step an unvisited hole at
\* minimal Euclidean distance from the current position, the lowest index
\* among equals, and moves to it; the distance returned is the sum of the
\* legs from the start point (the origin by default); with two holes the
\* order starts with the nearer one; the result depends on (holes, start)
\* only: the calls made without a start point agree on the order.
C21_Greedy ==
    /\ "optimize_drill_path" \in op_done =>
         /\ Len(op_order) = Len(op_drill.holes)
         /\ IsGreedy(op_order, HolePositions, HolePositions, StartOf(op_start))
         /\ op_total = LegsLength(op_order, HolePositions, HolePositions, StartOf(op_start))
         /\ Len(op_drill.holes) = 2 =>
              LessEq(SqDist(StartOf(op_start), HolePositions[op_order[1] + 1]),
                     SqDist(StartOf(op_start), HolePositions[op_order[2] + 1]))
    /\ ("optimize_drill_path" \in op_done /\ "compare_optimization" \in op_done
        /\ op_start = NoPoint /\ op_drill.holes # <<>>) =>
         op_report.optimized_indices = op_order
    /\ ("optimize_drill_path" \in op_done /\ "generate_drill_toolpath(True)" \in op_done
        /\ op_start = NoPoint) =>
         op_optimized = [k \in DOMAIN op_order |->
                           << op_drill.holes[op_order[k] + 1].position,
                              op_drill.holes[op_order[k] + 1].diameter >>]

\* three holes, the first two at the same place: from (2.5, -1) both are
\* nearest, index 0 is taken before index 1, and the far hole comes last
C21_Witness ==
    /\ "optimize_drill_path" \in op_done
    /\ op_start = [x |-> Dec(25, 1), y |-> Dec(0 - 1, 0)]
    /\ Len(op_drill.holes) = 3
    /\ op_drill.holes[1].position = op_drill.holes[2].position
    /\ op_drill.holes[3].position # op_drill.holes[1].position
    /\ op_order = <<0, 1, 2>>
    /\ Less(Zero, op_total)

\* ------------------------------------------------------------ path routing
Routed == "optimize_isolation_routing" \in op_done

\* the indices (from 0) of the paths that have points
NonEmptyPaths == {i \in 0 .. Len(op_paths) - 1 : op_paths[i + 1] # <<>>}

IsPermutation(order, n) ==
    /\ Len(order) = n
    /\ \A i \in 0 .. n - 1 : \E k \in DOMAIN order : order[k] = i

NoDuplicates(order) ==
    \A j, k \in DOMAIN order : order[j] = order[k] => j = k

FirstPoints ==
    [i \in DOMAIN op_paths |-> IF op_paths[i] = <<>> THEN NoPoint ELSE op_paths[i][1]]

LastPoints ==
    [i \in DOMAIN op_paths |->
       IF op_paths[i] = <<>> THEN NoPoint ELSE op_paths[i][Len(op_paths[i])]]

\* order (indices from 0) is the greedy walk over the paths with points:
\* each path chosen is unvisited, its first point is nearest to where the
\* path before it ended, and it is the lowest index among the nearest
IsGreedyRoute(order, start) ==
    \A k \in DOMAIN order :
        LET cur == IF k = 1 THEN start ELSE LastPoints[order[k - 1] + 1]
            before == {order[j] : j \in 1 .. k - 1}
            c == order[k]
        IN  /\ c \in NonEmptyPaths \ before
            /\ \A u \in NonEmptyPaths \ before :
                 /\ LessEq(SqDist(cur, FirstPoints[c + 1]), SqDist(cur, FirstPoints[u + 1]))
                 /\ SqDist(cur, FirstPoints[c + 1]) = SqDist(cur, FirstPoints[u + 1])
                      => c <= u

\* C23: optimize_isolation_routing measures at every step the distance from
\* the current position to the first point of each unvisited path, takes the
\* minimum (lowest index among equals) and goes on from the last point of the
\* path taken, never from its first; the distance returned is the sum of the
\* rapid legs only: start to the first point of the first path, last point
\* of a path to the first point of the next, nothing along the paths.
C23_Routing ==
    Routed =>
      /\ IsGreedyRoute(op_route[1], StartOf(op_start))
      /\ op_route[2] = LegsLength(op_route[1], FirstPoints, LastPoints, StartOf(op_start))

\* three paths routed: the first one taken runs between two different
\* points and the second one taken begins where the first ended
C23_Witness ==
    /\ Routed
    /\ Len(op_route[1]) >= 2
    /\ LET p == op_paths[op_route[1][1] + 1]
           q == op_paths[op_route[1][2] + 1]
       IN  /\ Len(p) = 2
           /\ p[1] # p[2]
           /\ q[1] = p[2]
           /\ Len(op_route[1]) = 3
    /\ Less(Zero, op_route[2])

\* ------------------------------------------------ Gerber: selection lines
\* the lines of GerberLines that are D<digits> alone, and the code each names
SelectCode(line) ==
    CASE line = <<"D", "1", "0", "*">> -> <<"D", "1", "0">>
      [] line = <<"D", "1", "1", "*">> -> <<"D", "1", "1">>
      [] line = <<"D", "1", "2", "*">> -> <<"D", "1", "2">>
      [] line = <<"D", "1", "3", "*">> -> <<"D", "1", "3">>
      [] line = <<"D", "0", "1", "*">> -> <<"D", "0", "1">>
      [] line = <<"D", "0", "3">> -> <<"D", "0", "3">>
      [] OTHER -> None

\* C24: a line that is D<digits> alone, with or without a closing *, sets
\* current_aperture to D<digits> and changes nothing else: position,
\* draw_mode, format spec, unit, aperture table and geometry stay, whatever
\* the number (01 and 03 included) and whether the aperture is defined.
C24_SelectStep ==
    (GerberConsumed /\ SelectCode(gb_line') # None) =>
        /\ gerber' = [gerber EXCEPT !.current_aperture = SelectCode(gb_line')]
        /\ gb_pc' = "scanning"

C24_SelectOnly == [][C24_SelectStep]_vars

\* two D01 lines have drawn a Line and D01* was read after them: draw_mode
\* is still on, the Line is alone, and the current aperture is D01
C24_Witness ==
    /\ gb_line = <<"D", "0", "1", "*">>
    /\ gerber.current_aperture = <<"D", "0", "1">>
    /\ <<"D", "0", "1">> \notin DOMAIN gerber.apertures
    /\ gerber.draw_mode
    /\ Len(gerber.lines) = 1
    /\ gerber.current_y = Dec(0 - 5, 0)

\* --------------------------------------------------- Gerber: format spec
FormatLine == <<"%", "F", "S", "L", "A", "X", "2", "4", "Y", "3", "5", "*", "%">>

\* the X and Y tokens of the coordinate lines of GerberLines, <<>> for none
XToken(line) ==
    CASE line = <<"X", "0", "Y", "7", "8", "2", "3", "2", "0", "0", "0", "D", "0", "2", "*">> -> <<"0">>
      [] line = <<"X", "7", "3", "1", "5", "2", "0", "0", "0", "Y", "7", "8", "2", "3", "2", "0", "0", "0", "D", "0", "1", "*">> -> <<"7", "3", "1", "5", "2", "0", "0", "0">>
      [] line = <<"X", "0", "Y", "0", "D", "0", "3", "*">> -> <<"0">>
      [] line = <<"X", "2", "5", "0", "0", "0", "0", "0", "D", "0", "3", "*">> -> <<"2", "5", "0", "0", "0", "0", "0">>
      [] line = <<"X", "1", "0", "0", "0", "0", "0", "0", "Y", "1", "0", "0", "0", "0", "0", "0", "*">> -> <<"1", "0", "0", "0", "0", "0", "0">>
      [] OTHER -> <<>>

YToken(line) ==
    CASE line = <<"X", "0", "Y", "7", "8", "2", "3", "2", "0", "0", "0", "D", "0", "2", "*">> -> <<"7", "8", "2", "3", "2", "0", "0", "0">>
      [] line = <<"X", "7", "3", "1", "5", "2", "0", "0", "0", "Y", "7", "8", "2", "3", "2", "0", "0", "0", "D", "0", "1", "*">> -> <<"7", "8", "2", "3", "2", "0", "0", "0">>
      [] line = <<"Y", "-", "5", "0", "0", "0", "0", "0", "0", "D", "0", "1", "*">> -> <<"-", "5", "0", "0", "0", "0", "0", "0">>
      [] line = <<"X", "0", "Y", "0", "D", "0", "3", "*">> -> <<"0">>
      [] line = <<"X", "1", "0", "0", "0", "0", "0", "0", "Y", "1", "0", "0", "0", "0", "0", "0", "*">> -> <<"1", "0", "0", "0", "0", "0", "0">>
      [] OTHER -> <<>>

\* what a token reads as, in file units, with 4 + 6 digits and with 2 + 4
\* digits (the token is padded with zeros on the left to the total and cut
\* after the integer digits; digits beyond the total are dropped)
TokenValue(token, format) ==
    CASE token = <<"0">> -> Zero
      [] token = <<"7", "8", "2", "3", "2", "0", "0", "0">> -> Dec(78232, 3)
      [] token = <<"7", "3", "1", "5", "2", "0", "0", "0">> -> Dec(73152, 3)
      [] token = <<"-", "5", "0", "0", "0", "0", "0", "0">> -> IF format = <<4, 6>> THEN Dec(0 - 5, 0) ELSE Dec(0 - 50, 0)
      [] token = <<"2", "5", "0", "0", "0", "0", "0">> -> IF format = <<4, 6>> THEN Dec(25, 1) ELSE Dec(25, 0)
      [] token = <<"1", "0", "0", "0", "0", "0", "0">> -> IF format = <<4, 6>> THEN Dec(1, 0) ELSE Dec(10, 0)

\* the value in millimetres of a value in the units of the parser
GerberMM(value, unit) == IF unit = "inch" THEN Mul(value, Dec(254, 1)) ELSE value

\* C26: the format is (4, 6) until an FS directive is read; the directive
\* %FSLAX24Y35*% sets it to (2, 4), the pair after X (the pair after Y is
\* not used), and changes nothing else, so positions and geometry decoded
\* before it keep their values; no other line changes the format; the X and
\* the Y token of every coordinate line are both decoded with the format in
\* force when the line is read.
C26_FormatStep ==
    /\ gb_count = 0 => gerber.format_spec = <<4, 6>>
    /\ gerber.format_spec \in {<<4, 6>>, <<2, 4>>}
    /\ (GerberConsumed /\ gb_line' = FormatLine) =>
         gerber' = [gerber EXCEPT !.format_spec = <<2, 4>>]
    /\ (GerberConsumed /\ gb_line' # FormatLine) =>
         /\ gerber'.format_spec = gerber.format_spec
         /\ XToken(gb_line') # <<>> =>
              gerber'.current_x =
                GerberMM(TokenValue(XToken(gb_line'), gerber.format_spec), gerber.unit)
         /\ YToken(gb_line') # <<>> =>
              gerber'.current_y =
                GerberMM(TokenValue(YToken(gb_line'), gerber.format_spec), gerber.unit)
    /\ GerberConsumed =>
         /\ Len(gerber.lines) <= Len(gerber'.lines)
         /\ SubSeq(gerber'.lines, 1, Len(gerber.lines)) = gerber.lines
         /\ Len(gerber.circles) <= Len(gerber'.circles)
         /\ SubSeq(gerber'.circles, 1, Len(gerber.circles)) = gerber.circles

C26_FormatSpec == [][C26_FormatStep]_vars

\* X1000000Y1000000* was read with 4 + 6 digits, then the directive, then
\* Y-5000000D01* with 2 + 4 digits: x is still 1, y is -50
C26_Witness ==
    /\ gb_line = <<"Y", "-", "5", "0", "0", "0", "0", "0", "0", "D", "0", "1", "*">>
    /\ gerber.format_spec = <<2, 4>>
    /\ gerber.unit = "mm"
    /\ gerber.current_x = Dec(1, 0)
    /\ gerber.current_y = Dec(0 - 50, 0)

\* ------------------------------------------------ Gerber: G04 and G01
\* the lines of GerberLines that begin with G04 or G01
DiscardedLines ==
    { <<"G", "0", "4", " ", "X", "9", "D", "0", "1", "*">>, <<"G", "0", "1", "X", "1", "0", "0", "0", "0", "0", "0", "Y", "2", "0", "0", "0", "0", "0", "0", "D", "0", "1", "*">>, <<"G", "0", "1", "X", "5", "D", "0", "3", "*">>, <<"G", "0", "1", "Y", "7", "D", "0", "2", "*">> }

\* C27: a line that begins with G04 or G01 is dropped as a whole: position,
\* draw_mode, current aperture and geometry (and everything else the parser
\* holds) stay as they were, also when the line carries X / Y coordinates
\* and a D01, D02 or D03 code.
C27_DiscardStep ==
    (GerberConsumed /\ gb_line' \in DiscardedLines) =>
        /\ gerber' = gerber
        /\ gb_pc' = "scanning"

C27_Discarded == [][C27_DiscardStep]_vars

\* a D01 line has set the position and turned draw_mode on, and a G01 line
\* with coordinates and D01 was read after it: no Line, position kept
C27_Witness ==
    /\ gb_line = <<"G", "0", "1", "X", "1", "0", "0", "0", "0", "0", "0", "Y", "2", "0", "0", "0", "0", "0", "0", "D", "0", "1", "*">>
    /\ gerber.draw_mode
    /\ gerber.lines = <<>>
    /\ gerber.current_x = Dec(73152, 3)
    /\ gerber.current_y = Dec(78232, 3)

\* ------------------------------------------------------ modal coordinates
\* the lines of ExcellonLines that the parser reads as coordinate lines and
\* that carry an X token, and those that carry a Y token
ExcellonXLines == { <<"X", "0", "1", "2", "3", "4", "5", "Y", "0", "6", "7", "8", "9", "0">>, <<"X", "-", "1", "5">>, <<"X", "1", ".", "2", ".", "3">> }

ExcellonYLines == { <<"X", "0", "1", "2", "3", "4", "5", "Y", "0", "6", "7", "8", "9", "0">>, <<" ", "Y", "1", ".", "5">> }

LastOf(seq) == seq[Len(seq)]

\* C25: in both parsers the running position starts at (0, 0); a line
\* without an X token leaves current_x as the last line with X set it, and
\* likewise for Y; the end of an emitted Line, the centre of an emitted
\* Circle and the position of an emitted DrillHole are the running pair
\* after the update.
C25_ModalStep ==
    /\ gb_count = 0 => gerber.current_x = Zero /\ gerber.current_y = Zero
    /\ ex_count = 0 => excellon.current_x = Zero /\ excellon.current_y = Zero
    /\ GerberConsumed =>
         /\ XToken(gb_line') = <<>> => gerber'.current_x = gerber.current_x
         /\ YToken(gb_line') = <<>> => gerber'.current_y = gerber.current_y
         /\ Len(gerber'.lines) > Len(gerber.lines) =>
              LastOf(gerber'.lines).end = [x |-> gerber'.current_x, y |-> gerber'.current_y]
         /\ Len(gerber'.circles) > Len(gerber.circles) =>
              LastOf(gerber'.circles).center =
                [x |-> gerber'.current_x, y |-> gerber'.current_y]
    /\ ExcellonConsumed =>
         /\ ex_line' \notin ExcellonXLines => excellon'.current_x = excellon.current_x
         /\ ex_line' \notin ExcellonYLines => excellon'.current_y = excellon.current_y
         /\ Len(excellon'.holes) > Len(excellon.holes) =>
              LastOf(excellon'.holes).position =
                [x |-> excellon'.current_x, y |-> excellon'.current_y]

C25_Modal == [][C25_ModalStep]_vars

\* X73152000Y78232000D01* then Y-5000000D01*: the Line ends at the x of the
\* first line and the y of the second
C25_Witness ==
    /\ gb_line = <<"Y", "-", "5", "0", "0", "0", "0", "0", "0", "D", "0", "1", "*">>
    /\ Len(gerber.lines) = 1
    /\ gerber.lines[1].end = [x |-> Dec(73152, 3), y |-> Dec(0 - 5, 0)]
    /\ gerber.current_x = Dec(73152, 3)

\* T01C0.800, T01, X-15 then Y1.5: the second hole keeps the x of the first
C25_ExcellonWitness ==
    /\ ex_line = <<" ", "Y", "1", ".", "5">>
    /\ Len(excellon.holes) = 2
    /\ excellon.holes[2].position = [x |-> Dec(0 - 15, 3), y |-> Dec(15, 1)]

\* ------------------------------------------------- one decoder or two
\* current_x after the line X<token> in a new parser of the other kind with
\* the unit of dc_self (an ExcellonParser has the format (3, 3))
OtherParserValue ==
    LET line == <<"X">> \o dc_arg
        r == IF dc_parser = "gerber"
             THEN Excellon_parse_coordinate(
                    [ExcellonParser EXCEPT !.unit = dc_self.unit], line)
             ELSE Gerber_parse_coordinate(
                    [GerberParser EXCEPT !.format_spec = ExcellonParser.format_spec,
                                         !.unit = dc_self.unit], line)
    IN  IF r.raised THEN ValueError ELSE r.self.current_x

\* C28: for every token after X on a coordinate line, every unit and the
\* same format spec, the Gerber parser and the Excellon parser come to the
\* same value in millimetres, a token with a decimal point included.
C28_SameValue ==
    (dc_call = "line" /\ dc_self.format_spec = ExcellonParser.format_spec) =>
        dc_ret = OtherParserValue

\* on tokens of sign and digits only the two parsers agree
C28_IntegerTokensAgree ==
    ( /\ dc_call = "line" /\ dc_self.format_spec = ExcellonParser.format_spec
      /\ dc_arg \in IntegerTokens ) =>
        dc_ret = OtherParserValue

\* the GerberParser has read X22.606 with 3 + 3 digits in mm as 0.022
C28_DecimalToken ==
    /\ dc_call = "line" /\ dc_parser = "gerber"
    /\ dc_arg = <<"2", "2", ".", "6", "0", "6">>
    /\ dc_self.format_spec = <<3, 3>> /\ dc_self.unit = MM
    /\ dc_ret = Dec(22, 3)
    /\ OtherParserValue = Dec(22606, 3)

\* ------------------------------------------------------------ the program
\* the command of a line: its first word
CommandOf(line) == Words(line)[1]

MotionCommands == { <<"G", "0">>, <<"G", "1">>, <<"G", "2">>, <<"G", "3">> }

\* the numbers of the lines of the program whose command is in cmds
LinesWith(cmds) == {k \in DOMAIN pg_code : CommandOf(pg_code[k]) \in cmds}

\* the line commands Z = z
AtZ(line, z) == WordOf(line, "Z") # <<>> /\ Writes(WordOf(line, "Z"), z, 3)

IsPrefix(a, b) == Len(a) <= Len(b) /\ SubSeq(b, 1, Len(a)) = a

\* C30: parse() resets nothing.  A second parse() on the same parser object
\* starts from the unit, format spec, tool / aperture table, current tool /
\* aperture, position and draw_mode the first call left, its loop runs also
\* when the first call ended on M30, and the container it returns holds the
\* primitives of the first input followed by those of the second; only a
\* new parser object has an empty result.
C30_SessionStep ==
    /\ (ss_calls = 1 /\ ex_count = 0 /\ gb_count = 0) =>
         /\ excellon = ExcellonParser /\ excellon.holes = <<>>
         /\ gerber = GerberParser /\ gerber.lines = <<>> /\ gerber.circles = <<>>
    /\ ss_calls' = ss_calls + 1 =>
         /\ excellon' = excellon
         /\ gerber' = gerber
         /\ ss_left'.kind = "excellon" => ex_pc' = "scanning"
         /\ ss_left'.kind = "gerber" => gb_pc' = "scanning"
    /\ (ss_calls = 2 /\ ss_left.kind = "excellon") =>
         /\ IsPrefix(ss_left.self.holes, excellon.holes)
         /\ ex_count = ss_left.count => excellon = ss_left.self
    /\ (ss_calls = 2 /\ ss_left.kind = "gerber") =>
         /\ IsPrefix(ss_left.self.lines, gerber.lines)
         /\ IsPrefix(ss_left.self.circles, gerber.circles)
         /\ gb_count = ss_left.count => gerber = ss_left.self

C30_Session == [][C30_SessionStep]_vars

\* the first call read T01C0.800, T01 and M30; the second call read X-15
\* and drilled with the tool table and the selection of the first
C30_Witness ==
    /\ ss_calls = 2
    /\ ss_left.kind = "excellon"
    /\ ss_left.line = <<"M", "3", "0">>
    /\ ss_left.self.holes = <<>>
    /\ ex_line = <<"X", "-", "1", "5">>
    /\ Len(excellon.holes) = 1
    /\ excellon.holes[1].diameter = Dec(8, 1)

\* the first call drew a Line with two D01 lines; the second call read one
\* D01 line and drew at once, draw_mode being still on
C30_GerberWitness ==
    /\ ss_calls = 2
    /\ ss_left.kind = "gerber"
    /\ Len(ss_left.self.lines) = 1
    /\ gb_count = ss_left.count + 1
    /\ Len(gerber.lines) = 2

====
